---- MODULE Spec2Model ----
(***************************************************************************)
(* tinysse: the publish pipeline (src/web.rs publish), the subscriber      *)
(* engine (src/web.rs subscribe / sse_subscribe), the broadcast bus        *)
(* (tokio::sync::broadcast as created in src/state.rs) and the hook        *)
(* dispatch of the script host (src/script.rs).                            *)
(***************************************************************************)
EXTENDS Integers, Sequences, FiniteSets, TLC

(***************************************************************************)
(* Bounds of the model.                                                    *)
(***************************************************************************)
NSubs == 2
NPubs == 2
MaxPublishes == 2
MaxCapacity == 2
\* The larger bounds of the lag scenario (one subscriber).
MaxLagPublishes == 5
MaxLagCapacity == 3
\* The clock of the timed scenario: the default timeout lasts TimeoutTicks
\* ticks, and the clock stops at MaxTicks.
TimeoutTicks == 2
MaxTicks == 3
\* The POSTs of the scenario that sends requests of every kind.
MaxRequests == 1
\* The integers of a message, scaled down: retry is an unsigned integer of
\* RetryBits bits (64 in msg.rs), a Lua integer is signed and as wide, and a
\* Lua float keeps F64Digits significant bits (53 of them in an f64).
RetryBits == 4
F64Digits == 2
\* The requests made through one http agent.
MaxAgentRequests == 2
\* The hook invocations that call one script mutex.
NInvocations == 3

Subs == 1..NSubs
Pubs == 1..NPubs
Invocations == 1..NInvocations

(***************************************************************************)
(* Option<T>: None is the empty sequence, Some(v) the one-element one.     *)
(***************************************************************************)
None == <<>>
Some(v) == <<v>>
is_none(o) == o = None
is_some(o) == o # None

(***************************************************************************)
(* msg.rs: Message and its conversions.                                    *)
(***************************************************************************)
Message(id, event, data, comment, retry) ==
    [id |-> id, event |-> event, data |-> data, comment |-> comment, retry |-> retry]

\* is_empty that takes Some(comment) for a comment, whatever its length.
is_empty_some_comment(m) ==
    /\ is_none(m.id)
    /\ is_none(m.event)
    /\ is_none(m.data)
    /\ is_none(m.comment)
    /\ is_none(m.retry)
\* Message::is_empty
is_empty(m) ==
    /\ is_none(m.id)
    /\ is_none(m.event)
    /\ is_none(m.data)
    /\ (is_none(m.comment) \/ m.comment[1] = <<>>)
    /\ is_none(m.retry)

\* A Lua table is a function from its keys; the empty table has no key.
LuaEmptyTable == <<>>
LuaGet(tbl, k) == IF k \in DOMAIN tbl THEN Some(tbl[k]) ELSE None

RECURSIVE Pow2(_)
Pow2(n) == IF n = 0 THEN 1 ELSE 2 * Pow2(n - 1)
\* u64::MAX and i64::MAX (mlua::Integer) at the width of the model.
U64Max == Pow2(RetryBits) - 1
I64Max == Pow2(RetryBits - 1) - 1

\* The number of bits of v > 0.
RECURSIVE BitLen(_)
BitLen(v) == IF v <= 1 THEN 1 ELSE 1 + BitLen(v \div 2)
\* `v as f64`: v rounded to F64Digits significant bits, ties to even.
F64Round(v) ==
    IF v = 0 \/ BitLen(v) <= F64Digits THEN v
    ELSE LET ulp == Pow2(BitLen(v) - F64Digits)
             q == v \div ulp
             r == v % ulp
         IN IF 2 * r < ulp \/ (2 * r = ulp /\ q % 2 = 0)
            THEN q * ulp ELSE (q + 1) * ulp

\* impl IntoLua for u64 (tbl.set("retry", retry), line 86): a Lua integer
\* when the value fits one, else a Lua float.
U64IntoLua(v) == IF v <= I64Max THEN v ELSE F64Round(v)
\* impl FromLua for u64 (tbl.get("retry"), line 48): the number cast to u64,
\* an error when it is out of range; on an error the field is left None.
U64FromLua(x) == IF x >= 0 /\ x <= U64Max THEN Some(x) ELSE None

\* impl IntoLua for Message: a key per present field, comment only when the
\* sequence is not empty.
MessageIntoLua(m) ==
    (IF is_some(m.id) THEN [id |-> m.id[1]] ELSE LuaEmptyTable)
    @@ (IF is_some(m.event) THEN [event |-> m.event[1]] ELSE LuaEmptyTable)
    @@ (IF is_some(m.data) THEN [data |-> m.data[1]] ELSE LuaEmptyTable)
    @@ (IF is_some(m.comment) /\ m.comment[1] # <<>>
          THEN [comment |-> m.comment[1]] ELSE LuaEmptyTable)
    @@ (IF is_some(m.retry) THEN [retry |-> U64IntoLua(m.retry[1])] ELSE LuaEmptyTable)

\* impl FromLua for Message: every field read from its key, nil is None.
MessageFromLua(tbl) ==
    Message(LuaGet(tbl, "id"), LuaGet(tbl, "event"), LuaGet(tbl, "data"),
            LuaGet(tbl, "comment"),
            IF is_some(LuaGet(tbl, "retry")) THEN U64FromLua(tbl.retry) ELSE None)

RECURSIVE EventComments(_)
EventComments(cs) ==
    IF cs = <<>> THEN <<>>
    ELSE << <<"comment", Head(cs)>> >> \o EventComments(Tail(cs))

\* A conversion that writes the comments first.
MessageIntoEvent_comments_first(m) ==
    (IF is_some(m.comment) THEN EventComments(m.comment[1]) ELSE <<>>)
    \o (IF is_some(m.id) THEN << <<"id", m.id[1]>> >> ELSE <<>>)
    \o (IF is_some(m.event) THEN << <<"event", m.event[1]>> >> ELSE <<>>)
    \o (IF is_some(m.data) THEN << <<"data", m.data[1]>> >> ELSE <<>>)
    \o (IF is_some(m.retry) THEN << <<"retry", m.retry[1]>> >> ELSE <<>>)
\* impl From<Message> for Event: the fields of the SSE event in the order the
\* builder is called.
MessageIntoEvent(m) ==
    (IF is_some(m.id) THEN << <<"id", m.id[1]>> >> ELSE <<>>)
    \o (IF is_some(m.event) THEN << <<"event", m.event[1]>> >> ELSE <<>>)
    \o (IF is_some(m.data) THEN << <<"data", m.data[1]>> >> ELSE <<>>)
    \o (IF is_some(m.comment) THEN EventComments(m.comment[1]) ELSE <<>>)
    \o (IF is_some(m.retry) THEN << <<"retry", m.retry[1]>> >> ELSE <<>>)

\* The request bodies the model publishes (decode_raw_body's results).
Msgs ==
    { Message(None, None, None, Some(<<>>), None),
      Message(Some("1"), None, Some("a"), Some(<<"c">>), Some(5)) }

(***************************************************************************)
(* The bus: tokio::sync::broadcast as used by state.rs and web.rs.         *)
(* A channel is [buffer, tail, rx_cnt]; a slot is [pos, rem, val].         *)
(***************************************************************************)
RECURSIVE PowerOfTwoFrom(_, _)
PowerOfTwoFrom(p, n) == IF p >= n THEN p ELSE PowerOfTwoFrom(2 * p, n)
next_power_of_two(n) == PowerOfTwoFrom(1, n)

\* The ring length with the capacity taken as it is.
ChannelLen_exact(capacity) == capacity
\* broadcast::channel rounds the capacity up to a power of two.
ChannelLen(capacity) == next_power_of_two(capacity)

\* A channel whose first receiver is kept alive.
Channel_first_receiver_kept(capacity) ==
    [ buffer |-> [i \in 0..(ChannelLen(capacity) - 1) |->
                     [pos |-> i - ChannelLen(capacity), rem |-> 0, val |-> None]],
      tail |-> 0,
      rx_cnt |-> 1 ]
\* AppState::from_cli: broadcast::channel(cli.capacity), the first receiver
\* dropped at once.
Channel(capacity) ==
    [ buffer |-> [i \in 0..(ChannelLen(capacity) - 1) |->
                     [pos |-> i - ChannelLen(capacity), rem |-> 0, val |-> None]],
      tail |-> 0,
      rx_cnt |-> 0 ]

BufLen(b) == Cardinality(DOMAIN b.buffer)
SlotIdx(b, pos) == pos % BufLen(b)

\* Sender::send on a bounded queue that refuses to overwrite an unread slot.
SendResult_bounded(b, v) ==
    IF b.rx_cnt = 0 \/ b.buffer[SlotIdx(b, b.tail)].rem > 0
    THEN [bus |-> b, ok |-> FALSE, n |-> 0]
    ELSE [bus |-> [b EXCEPT !.buffer[SlotIdx(b, b.tail)] =
                                [pos |-> b.tail, rem |-> b.rx_cnt, val |-> Some(v)],
                            !.tail = b.tail + 1],
          ok |-> TRUE, n |-> b.rx_cnt]
\* Sender::send that stores the value also when no receiver is joined.
SendResult_always(b, v) ==
    [bus |-> [b EXCEPT !.buffer[SlotIdx(b, b.tail)] =
                            [pos |-> b.tail, rem |-> b.rx_cnt, val |-> Some(v)],
                        !.tail = b.tail + 1],
     ok |-> b.rx_cnt > 0, n |-> b.rx_cnt]
\* Sender::send: Err when no receiver is joined, else the slot at tail is
\* overwritten and the number of receivers returned.
SendResult(b, v) ==
    IF b.rx_cnt = 0
    THEN [bus |-> b, ok |-> FALSE, n |-> 0]
    ELSE [bus |-> [b EXCEPT !.buffer[SlotIdx(b, b.tail)] =
                                [pos |-> b.tail, rem |-> b.rx_cnt, val |-> Some(v)],
                            !.tail = b.tail + 1],
          ok |-> TRUE, n |-> b.rx_cnt]

\* Sender::len: binary search for the first slot, from the oldest, that some
\* receiver has still to read.
RECURSIVE LenSearch(_, _, _)
LenSearch(b, low, high) ==
    IF low >= high THEN low
    ELSE LET mid == low + ((high - low) \div 2)
             idx == (SlotIdx(b, b.tail) + mid) % BufLen(b)
         IN IF b.buffer[idx].rem = 0
            THEN LenSearch(b, mid + 1, high)
            ELSE LenSearch(b, low, mid)
SenderLen(b) == BufLen(b) - LenSearch(b, 0, BufLen(b))

\* Sender::subscribe that puts the cursor on the oldest retained item.
SubscribeResult_oldest(b) ==
    [bus |-> [b EXCEPT !.rx_cnt = b.rx_cnt + 1],
     next |-> IF b.tail > BufLen(b) THEN b.tail - BufLen(b) ELSE 0]
\* Sender::subscribe: one more receiver, its cursor at the tail.
SubscribeResult(b) == [bus |-> [b EXCEPT !.rx_cnt = b.rx_cnt + 1], next |-> b.tail]

\* RecvGuard drop: one receiver less has to read the slot; the value is
\* released with the last one.
ReleaseSlot(b, idx) ==
    [b EXCEPT !.buffer[idx] =
        [pos |-> @.pos, rem |-> @.rem - 1,
         val |-> IF @.rem = 1 THEN None ELSE @.val]]

\* Receiver::recv_ref that hands out the item without moving the cursor.
RecvResult_stuck(b, next) ==
    LET idx  == SlotIdx(b, next)
        slot == b.buffer[idx]
    IN IF slot.pos = next /\ slot.rem > 0
       THEN [kind |-> "item", bus |-> b, next |-> next, val |-> slot.val, missed |-> 0]
       ELSE [kind |-> "empty", bus |-> b, next |-> next, val |-> None, missed |-> 0]
\* Receiver::recv_ref that resumes after a lag with the newest item only.
RecvResult_newest(b, next) ==
    LET idx  == SlotIdx(b, next)
        slot == b.buffer[idx]
    IN IF slot.pos = next
       THEN [kind |-> "item", bus |-> ReleaseSlot(b, idx), next |-> next + 1,
             val |-> slot.val, missed |-> 0]
       ELSE IF slot.pos + BufLen(b) = next
       THEN [kind |-> "empty", bus |-> b, next |-> next, val |-> None, missed |-> 0]
       ELSE [kind |-> "lagged", bus |-> b, next |-> b.tail - 1,
             val |-> None, missed |-> (b.tail - 1) - next]
\* Receiver::recv_ref: the item under the cursor, Empty when the cursor is at
\* the tail, or Lagged(missed) with the cursor moved to the oldest retained
\* item when the slot under the cursor was overwritten.
RecvResult(b, next) ==
    LET idx  == SlotIdx(b, next)
        slot == b.buffer[idx]
        old  == b.tail - BufLen(b)
    IN IF slot.pos = next
       THEN [kind |-> "item", bus |-> ReleaseSlot(b, idx), next |-> next + 1,
             val |-> slot.val, missed |-> 0]
       ELSE IF slot.pos + BufLen(b) = next
       THEN [kind |-> "empty", bus |-> b, next |-> next, val |-> None, missed |-> 0]
       ELSE IF old - next = 0
       THEN [kind |-> "item", bus |-> ReleaseSlot(b, idx), next |-> next + 1,
             val |-> slot.val, missed |-> 0]
       ELSE [kind |-> "lagged", bus |-> b, next |-> old,
             val |-> None, missed |-> old - next]

\* Receiver drop: the receiver leaves, and its loop over recv_ref releases
\* every retained slot from its cursor on.
ReceiverDrop(b, next) ==
    [b EXCEPT !.rx_cnt = b.rx_cnt - 1,
              !.buffer = [i \in DOMAIN b.buffer |->
                  IF b.buffer[i].pos >= next
                  THEN [pos |-> b.buffer[i].pos, rem |-> b.buffer[i].rem - 1,
                        val |-> IF b.buffer[i].rem = 1 THEN None ELSE b.buffer[i].val]
                  ELSE b.buffer[i]]]

(***************************************************************************)
(* Configuration and state.                                                *)
(***************************************************************************)
\* cli.rs defaults: --timeout 5m, --timeout-retry 0s (milliseconds).
timeout == 300000
timeout_retry == 0

\* cli.rs default: --script-tick 500ms (milliseconds).
script_tick == 500
\* cli.rs default: --max-body-size 64KB (bytes).
max_body_size == 64000

\* A duration in milliseconds on the clock of the model.
Ticks(ms) == (ms * TimeoutTicks) \div timeout
\* A deadline no run reaches: sleep(Duration::from_millis(u64::MAX)).
Forever == -1

\* The Sleep armed with the configured timeout whatever it is: 0 completes at once.
ArmTimeout_immediate(t, at) == at + Ticks(t)
\* Lines 177-182: the Sleep of a stream created at tick `at` with the
\* configured timeout t; with t = 0 it is effectively never.
ArmTimeout(t, at) == IF t > 0 THEN at + Ticks(t) ELSE Forever

\* A Sleep created anew by every turn of the loop.
SelectTimeout_rearmed(d, t, at) == ArmTimeout(t, at)
\* Line 195: select! polls `&mut timeout`, the Sleep pinned before the loop;
\* a turn of the loop leaves its deadline d where it is.
SelectTimeout(d, t, at) == d

\* Lines 122-126: the Last-Event-ID a client connects with (header, else
\* query). The first client of the model sends one, the others none.
last_event_id(s) == IF s = 1 THEN Some("1") ELSE None

VARIABLES
    env,           \* the clients of the run: [clients, posts]
    capacity,      \* cli.capacity
    script,        \* the script loaded at startup: "none", "identity" or "any"
    broadcast,     \* state.broadcast, the channel
    nreq,          \* publish requests received so far
    ppc,           \* per publish task: "idle" or "publish" (inside the publish hook)
    pub_req,       \* per publish task: the PubReq handed to the publish hook
    response,      \* per publish task: the last response, with what the bus was then
    sent,          \* history: the items enqueued, in order (item i has position i-1)
    st,            \* per subscriber: where its request or stream is
    cursor,        \* per subscriber: next position of its receiver
    inflight,      \* per subscriber: the item its message hook is running on
    events,        \* per subscriber: history of what its stream did
    task,          \* per subscriber: the detached unsubscribe task
    unsubscribed,  \* per subscriber: calls of Script::unsubscribe
    accepted_at,   \* per subscriber, while its response waits for the first poll:
                   \* the tail of the bus when Script::subscribe resolved to Some
    now,           \* the clock, in ticks
    deadline,      \* per subscriber: the tick at which its Sleep completes
    armed_at,      \* history, per subscriber: the tick at which its stream started
    lua,           \* the hook invocations executing script code right now
    boot,          \* try_main: "init", "startup" (inside the startup hook),
                   \* "serving" or "exited"
    boot_log,      \* history: calls of the startup hook, what it did, and when
                   \* serving began
    count,         \* the count of the tick loop
    tick_pc,       \* the tick loop: "off", "wait" (at interval.tick()) or "hook"
    interval,      \* the deadline of the interval's next tick
    ticks,         \* history: the invocations of the tick hook
    http,          \* per publish task: the request it read last, [mime, len,
                   \* wellformed, parsed]; parsed is kept in the runs that send
                   \* requests of every kind
    sub_response,  \* per subscriber: the response to its GET, with what the hook did
    heap,          \* the Lua tables the envelopes keep as meta, by reference
    args,          \* history, per subscriber: the envelopes passed to its hooks
    agent,         \* an http agent of the script: the opts it was created with
                   \* and what its opts table holds now
    agent_log,     \* history: the requests made through the agent
    mutex,         \* a mutex of the script: who holds its lock, who waits for it
    mpc            \* per hook invocation that calls the mutex: where it is

vars == <<env, capacity, script, broadcast, nreq, ppc, pub_req, response, sent,
          st, cursor, inflight, events, task, unsubscribed,
          accepted_at, now, deadline, armed_at, lua, http, sub_response,
          boot, boot_log, count, tick_pc, interval, ticks, heap, args,
          agent, agent_log, mutex, mpc>>

pubVars == <<nreq, ppc, pub_req, response, sent>>
subVars == <<st, cursor, inflight, events, task, unsubscribed>>
timerVars == <<now, deadline, armed_at>>
mainVars == <<boot, boot_log, count, tick_pc, interval, ticks>>
metaVars == <<heap, args>>
userdataVars == <<agent, agent_log, mutex, mpc>>

\* The tables of the heap: the meta of the request numbered n, and of the
\* subscribe request of s.
PubMeta(n) == <<"pub", n>>
SubMeta(s) == <<"sub", s>>
MetaRefs == {PubMeta(n) : n \in 1..MaxPublishes} \cup {SubMeta(s) : s \in Subs}

\* An http agent of the script: created (userdata/http.rs, lines 19-25) with opts or without, and
\* what the table it keeps in Agent::opts holds now.
Agent(created, opts) == [made |-> TRUE, created |-> created, opts |-> opts]
NoAgent == [made |-> FALSE, created |-> None, opts |-> None]

\* userdata/mutex.rs, lines 6-8: tokio::sync::Mutex::new(()), its lock free
\* and nobody waiting.
InnerMutex == [holder |-> None, waiters |-> <<>>]

\* PubReq::new(req, msg); req is the number of the HTTP request.
PubReq(req, msg) == [req |-> req, msg |-> msg]
NoPubReq == None
NoResponse == [req |-> 0, hook |-> "", status |-> 0, subscribers |-> 0, queued |-> 0,
               error |-> "", joined |-> 0, unread |-> 0, enqueued |-> 0]

\* A stream holds a receiver from its first poll until it is dropped.
JoinedStates == {"streaming", "message", "timeout", "timedout"}
Joined == {s \in Subs : st[s] \in JoinedStates}

\* One entry of a stream's history. kind is "ok", "message", "timeout" (frames
\* written), "dropped" or "lagged" (nothing written). pos is the bus position
\* the entry is about, n the request of the item (the number of items missed
\* for "lagged"), note what the hook did.
Ev(kind, pos, n, frame, note) ==
    [kind |-> kind, pos |-> pos, n |-> n, frame |-> frame, note |-> note]

\* Script::register: the hooks are registered when the script defines them.
\* The scripts of the model define all of them or none: "identity" hands
\* every argument back, "any" does whatever a hook can do, "delay" is
\* "identity" with a timeout hook that returns numbers, "meta" one whose
\* hooks write keys of their own into the envelopes.
Scripts == {"none", "identity", "any"}
registered == script # "none"

\* error.rs: AppError and its response, [status, error].
AppError(kind, msg) == [kind |-> kind, msg |-> msg]
\* The variants that web.rs builds and error.rs does not list.
into_response_unlisted(err) ==
    CASE err.kind = "Forbidden" -> [status |-> 403, error |-> err.msg]
      [] err.kind = "PayloadTooLarge" -> [status |-> 413, error |-> err.msg]
\* impl IntoResponse for AppError.
into_response(err) ==
    CASE err.kind = "Internal" -> [status |-> 500, error |-> err.msg]
      [] err.kind = "BadRequest" -> [status |-> 400, error |-> err.msg]
      [] err.kind = "UnsupportedMediaType" -> [status |-> 415, error |-> err.msg]
      [] OTHER -> into_response_unlisted(err)

\* Result<T, AppError>.
Ok(v) == [kind |-> "ok", val |-> v]
Err(e) == [kind |-> "err", err |-> e]

\* A POST on pub_path: its Content-Type and its body. Of the body the model
\* keeps the length and what the decoder of the declared type makes of it:
\* Some(msg), or None for a body that decoder fails on.
Body(len, parsed) == [len |-> len, parsed |-> parsed]
HttpPost(mime, body) == [mime |-> mime, body |-> body]
HttpSummary(r) ==
    [mime |-> r.mime, len |-> r.body.len, wellformed |-> is_some(r.body.parsed),
     parsed |-> IF env.requests = "raw" THEN r.body.parsed ELSE None]
NoHttp == [mime |-> "", len |-> 0, wellformed |-> FALSE, parsed |-> None]

\* Lines 77-87: body::to_bytes with the limit; a body longer than the limit
\* is AppError::PayloadTooLarge.
to_bytes(body, limit) ==
    IF body.len > limit
    THEN Err(AppError("PayloadTooLarge", "length limit exceeded"))
    ELSE Ok(body)

SupportedMimes == {"application/json", "application/x-www-form-urlencoded"}
\* A decoder that takes a body of any content type for JSON.
decode_raw_body_any_mime(mime, raw) ==
    IF is_some(raw.parsed) THEN Ok(raw.parsed[1])
    ELSE Err(AppError("BadRequest", "decode"))
\* decode_raw_body: JSON and form bodies are decoded, a failure of the
\* decoder is BadRequest; any other type is UnsupportedMediaType.
decode_raw_body(mime, raw) ==
    IF mime \in SupportedMimes
    THEN (IF is_some(raw.parsed) THEN Ok(raw.parsed[1])
          ELSE Err(AppError("BadRequest", "decode")))
    ELSE Err(AppError("UnsupportedMediaType", "unsupported media type"))

\* Every shape of message: each field present or absent, no comment, an
\* empty comment sequence, or two comments, a small retry, one just above
\* i64::MAX, or u64::MAX.
AllMsgs ==
    { Message(id, event, data, comment, retry) :
        id \in {None, Some("1")}, event \in {None, Some("e")},
        data \in {None, Some("a")},
        comment \in {None, Some(<<>>), Some(<<"c", "d">>)},
        retry \in {None, Some(5), Some(I64Max + 2), Some(U64Max)} }
\* The POSTs of a run: well-formed JSON requests within the limit, or every
\* kind of request: each content type, bodies at and over the limit, bodies
\* the decoder fails on.
DecodableRequests == { HttpPost("application/json", Body(100, Some(m))) : m \in Msgs }
RawRequests ==
    { HttpPost(mime, Body(len, parsed)) :
        mime \in SupportedMimes \cup {"text/plain"},
        len \in {max_body_size, max_body_size + 1},
        parsed \in {None} \cup {Some(m) : m \in AllMsgs} }

\* The response to a GET on sub_path: what the subscribe hook did ("nohook"
\* without one), the status and the error of the body.
SubResponse(hook, status, error) == [hook |-> hook, status |-> status, error |-> error]
NoSubResponse == SubResponse("", 0, "")
\* Lines 131-134: Some is answered with the Sse response, None with
\* AppError::Forbidden, and `?` turns an error of the hook into Internal.
subscribe_respond(out) ==
    CASE out \in {"same", "nohook"} -> SubResponse(out, 200, "")
      [] out = "nil" ->
           LET r == into_response(AppError("Forbidden", "subscribe rejected by script"))
           IN SubResponse(out, r.status, r.error)
      [] OTHER ->
           LET r == into_response(AppError("Internal", "internal"))
           IN SubResponse(out, r.status, r.error)

InitState ==
    /\ broadcast = Channel(capacity)
    /\ nreq = 0
    /\ ppc = [p \in Pubs |-> "idle"]
    /\ pub_req = [p \in Pubs |-> NoPubReq]
    /\ response = [p \in Pubs |-> NoResponse]
    /\ sent = <<>>
    /\ st = [s \in Subs |-> "idle"]
    /\ cursor = [s \in Subs |-> 0]
    /\ inflight = [s \in Subs |-> None]
    /\ events = [s \in Subs |-> <<>>]
    /\ task = [s \in Subs |-> "none"]
    /\ unsubscribed = [s \in Subs |-> 0]
    /\ accepted_at = [s \in Subs |-> 0]
    /\ now = 0
    /\ deadline = [s \in Subs |-> Forever]
    /\ armed_at = [s \in Subs |-> 0]
    /\ lua = {}
    /\ sub_response = [s \in Subs |-> NoSubResponse]
    /\ http = [p \in Pubs |-> NoHttp]
    /\ heap = [r \in MetaRefs |-> None]
    /\ agent = NoAgent
    /\ agent_log = <<>>
    /\ mutex = InnerMutex
    /\ mpc = [t \in Invocations |-> "idle"]
    /\ args = [s \in Subs |-> <<>>]

\* try_main has reached the select! of lines 70-94: the server is serving.
\* The tick loop is left out of the runs that start here.
Serving ==
    /\ boot = "serving"
    /\ boot_log = [startups |-> 0, ready_at |-> 0, out |-> ""]
    /\ count = 0
    /\ tick_pc = "off"
    /\ interval = 0
    /\ ticks = <<>>
\* try_main after AppState::from_cli and the bind of the listener (line 64).
Booting ==
    /\ boot = "init"
    /\ boot_log = [startups |-> 0, ready_at |-> Forever, out |-> ""]
    /\ count = 0
    /\ tick_pc = "off"
    /\ interval = 0
    /\ ticks = <<>>

\* The run: its clients, its configuration, and how it is observed. With
\* timed = FALSE durations are left open (a Sleep may complete at any
\* moment), with timed = TRUE the clock measures them. With host = "atomic"
\* each poll of a hook is one step, with host = "locked" the poll is split
\* at the interpreter's lock.
Env(clients, publishers, posts, t, retry, timed, host, requests, tick) ==
    [clients |-> clients, publishers |-> publishers, posts |-> posts,
     timeout |-> t, timeout_retry |-> retry, timed |-> timed, host |-> host,
     requests |-> requests, script_tick |-> tick]

\* Two subscribers, any script.
Init ==
    /\ env = Env(Subs, {1}, MaxPublishes, timeout, timeout_retry, FALSE, "atomic", "decodable", script_tick)
    /\ capacity \in 1..MaxCapacity
    /\ script \in Scripts
    /\ InitState
    /\ Serving

\* One subscriber and enough publishes to overrun the largest ring.
InitLag ==
    /\ env = Env({1}, {1}, MaxLagPublishes, timeout, timeout_retry, FALSE, "atomic", "decodable", script_tick)
    /\ capacity \in 1..MaxLagCapacity
    /\ script \in {"none", "identity"}
    /\ InitState
    /\ Serving

\* One subscriber on the clock, the timeout configured as 0 or as the
\* default, --timeout-retry 2s, no script or one with a timeout hook.
InitTimer ==
    /\ \E t \in {0, timeout} :
           env = Env({1}, {1}, MaxPublishes, t, 2000, TRUE, "atomic", "decodable", script_tick)
    /\ capacity = 1
    /\ script \in {"none", "delay"}
    /\ InitState
    /\ Serving

\* One subscriber and concurrent publishers, the polls of the hooks split
\* at the interpreter's lock.
InitHost ==
    /\ env = Env({1}, Pubs, MaxPublishes, timeout, timeout_retry, FALSE, "locked", "decodable", script_tick)
    /\ capacity = 1
    /\ script = "identity"
    /\ InitState
    /\ Serving

\* One subscriber and one POST of any kind, no script or the identity.
InitRequests ==
    /\ env = Env({1}, {1}, MaxRequests, timeout, timeout_retry, FALSE, "atomic", "raw", script_tick)
    /\ capacity = 1
    /\ script \in {"none", "identity"}
    /\ InitState
    /\ Serving

\* The server from its boot on, on the clock: one subscriber and one POST,
\* --script-tick half the timeout, no script or the identity.
InitTick ==
    /\ env = Env({1}, {1}, MaxRequests, timeout, timeout_retry, TRUE, "atomic", "decodable",
                 timeout \div TimeoutTicks)
    /\ capacity = 1
    /\ script \in {"none", "identity"}
    /\ InitState
    /\ Booting

\* Two subscribers and one POST, the script whose hooks write to meta.
InitMeta ==
    /\ env = Env(Subs, {1}, MaxRequests, timeout, timeout_retry, FALSE, "atomic", "decodable", script_tick)
    /\ capacity = 1
    /\ script = "meta"
    /\ InitState
    /\ Serving

\* A script that uses an http agent; no client.
InitAgent ==
    /\ env = Env({}, {}, 0, timeout, timeout_retry, FALSE, "atomic", "decodable", script_tick)
    /\ capacity = 1
    /\ script = "identity"
    /\ InitState
    /\ Serving

\* The POSTs the clients of the run send.
Requests == IF env.requests = "raw" THEN RawRequests ELSE DecodableRequests

(***************************************************************************)
(* What a hook of the script can hand back: nil, an error, or the envelope *)
(* with its msg table as the hook left it.                                 *)
(***************************************************************************)
\* What the hook `name` of the loaded script can do.
Outcomes(name) ==
    IF name \in {"startup", "tick"} THEN {"ok", "raise"}
    ELSE IF script = "identity"
    THEN (IF name = "timeout" THEN {"nil"} ELSE {"same"})
    ELSE IF script = "delay"
    THEN (IF name = "timeout" THEN {"number", "fraction", "negative", "nil", "raise"}
          ELSE {"same"})
    ELSE IF script = "meta"
    THEN (CASE name = "message" -> {"same", "rewrite", "nil", "raise"}
            [] name = "timeout" -> {"nil"}
            [] name = "unsubscribe" -> {"same", "raise"}
            [] OTHER -> {"same"})
    ELSE CASE name \in {"publish", "message"} ->
                {"same", "rewrite", "clear", "nil", "false", "raise"}
           [] name = "subscribe" -> {"same", "nil", "raise"}
           [] name = "unsubscribe" -> {"same"}
           [] OTHER -> {"number", "nil", "raise"}

\* The msg table after the hook body ran on it.
HookMsgTable(tbl, out) ==
    CASE out = "same" -> tbl
      [] out = "rewrite" -> [data |-> "b"]
      [] OTHER -> LuaEmptyTable

\* A conversion that takes a nil result for the argument unchanged.
HookResult_nil_accepts(pr, out) ==
    CASE out = "raise" -> [kind |-> "err", pub_req |-> NoPubReq]
      [] out = "nil" -> [kind |-> "some", pub_req |-> Some(pr)]
      [] out = "false" -> [kind |-> "err", pub_req |-> NoPubReq]
      [] OTHER -> [kind |-> "some",
                   pub_req |-> Some(PubReq(pr.req,
                       MessageFromLua(HookMsgTable(MessageIntoLua(pr.msg), out))))]
\* A conversion that takes an error of the hook for a nil result.
HookResult_raise_rejects(pr, out) ==
    CASE out \in {"nil", "raise"} -> [kind |-> "none", pub_req |-> NoPubReq]
      [] out = "false" -> [kind |-> "err", pub_req |-> NoPubReq]
      [] OTHER -> [kind |-> "some",
                   pub_req |-> Some(PubReq(pr.req,
                       MessageFromLua(HookMsgTable(MessageIntoLua(pr.msg), out))))]
\* call_async::<Option<PubReq>>: nil is None, every other value goes through
\* PublishRequest::from_lua, which takes a table and fails on anything else
\* (the boolean false); an error of the hook is Err.
HookResult(pr, out) ==
    CASE out = "nil" -> [kind |-> "none", pub_req |-> NoPubReq]
      [] out = "raise" -> [kind |-> "err", pub_req |-> NoPubReq]
      [] out = "false" -> [kind |-> "err", pub_req |-> NoPubReq]
      [] OTHER -> [kind |-> "some",
                   pub_req |-> Some(PubReq(pr.req,
                       MessageFromLua(HookMsgTable(MessageIntoLua(pr.msg), out))))]

\* Script::publish and Script::message without a registered hook.
NoHookResult(pr) == [kind |-> "some", pub_req |-> Some(pr)]

\* Script::catchup(sub_req, id): None without a catchup hook; the hook of
\* the model's scripts returns the two messages after the id.
catchup(id) ==
    IF registered
    THEN Some(<< Message(Some("2"), None, Some("two"), None, None),
                 Message(Some("3"), None, Some("three"), None, None) >>)
    ELSE None

(***************************************************************************)
(* req.rs: the envelopes as Lua tables. from_lua keeps the table the hook  *)
(* returned as the meta of the request, a reference to a table of the      *)
(* interpreter; into_lua writes the fields of the request into that table  *)
(* and hands the hook what lua.to_value makes of it.                       *)
(***************************************************************************)
\* The hooks of the script "meta" write keys of their own into the envelopes
\* they are handed; the tables are followed for that script.
MetaScript == script = "meta"

\* Table::set: a value is stored under the key, nil removes the key.
LuaSet(tbl, k, v) == (k :> v) @@ tbl
LuaUnset(tbl, k) == [x \in DOMAIN tbl \ {k} |-> tbl[x]]
LuaSetOption(tbl, k, o) == IF is_some(o) THEN LuaSet(tbl, k, o[1]) ELSE LuaUnset(tbl, k)

\* A value handed to a hook: the table it sees, and the table of the heap
\* it writes to when it sets a key (None: a table of its own).
Passed(ref, tbl) == [ref |-> ref, tbl |-> tbl]
\* A conversion that hands the hook the table itself.
to_value_by_reference(ref, tbl) == Passed(ref, tbl)
\* lua.to_value(&tbl): the table is serialised into a new table with the same
\* keys and values.
to_value(ref, tbl) == Passed(None, tbl)

\* A from_lua that keeps nothing of the table.
PublishRequestMeta_dropped(tbl) == LuaEmptyTable
\* PublishRequest::from_lua, lines 166-175: req and msg are set to nil in the
\* table the hook returned, and the table is the meta of the request.
PublishRequestMeta(tbl) == LuaUnset(LuaUnset(tbl, "req"), "msg")
\* PublishRequest::into_lua, lines 189-196: the meta table (a new table
\* without one) with req and msg set.
PublishRequestIntoLua(pr, meta) ==
    LuaSet(LuaSet(IF is_some(meta) THEN meta[1] ELSE LuaEmptyTable, "req", pr.req),
           "msg", MessageIntoLua(pr.msg))

\* SubscribeRequest::from_lua, lines 234-243.
SubscribeRequestMeta(tbl) == LuaUnset(LuaUnset(tbl, "req"), "last_event_id")
\* SubscribeRequest::into_lua, lines 257-264; req is the subscriber.
SubscribeRequestIntoLua(s, meta) ==
    LuaSetOption(LuaSet(IF is_some(meta) THEN meta[1] ELSE LuaEmptyTable, "req", s),
                 "last_event_id", last_event_id(s))

\* What the hooks of the script "meta" write before they return or raise:
\* publish and subscribe attach a key to their envelope, message changes
\* that key in both of its envelopes and attaches another to the first.
HookWrites(name, envelope, tbl) ==
    CASE name = "publish" -> LuaSet(tbl, "trace", "p")
      [] name = "subscribe" -> LuaSet(tbl, "user", "u")
      [] name = "message" /\ envelope = "pub" ->
           LuaSet(LuaSet(tbl, "trace", "m"), "extra", "x")
      [] name = "message" /\ envelope = "sub" -> LuaSet(tbl, "user", "m")
      [] OTHER -> tbl

\* One call of a hook of subscriber s in the history: the hook, the bus
\* position it is about, and the envelopes it was passed.
HookArgs(name, pos, pe, se) == [hook |-> name, pos |-> pos, pe |-> pe, se |-> se]

\* The publish hook has returned the envelope it was passed
\* (Script::publish, lines 121-131): its table becomes the meta of the
\* request that goes on the bus.
publish_meta(pr, res) ==
    /\ heap' = IF MetaScript /\ res.kind = "some"
               THEN [heap EXCEPT ![PubMeta(pr.req)] =
                        Some(PublishRequestMeta(
                            HookWrites("publish", "pub",
                                to_value(None, PublishRequestIntoLua(pr, None)).tbl)))]
               ELSE heap
    /\ UNCHANGED args
\* The subscribe hook has returned its envelope (Script::subscribe, lines
\* 133-143).
subscribe_meta(s, out) ==
    /\ heap' = IF MetaScript /\ out = "same"
               THEN [heap EXCEPT ![SubMeta(s)] =
                        Some(SubscribeRequestMeta(
                            HookWrites("subscribe", "sub",
                                to_value(None, SubscribeRequestIntoLua(s, None)).tbl)))]
               ELSE heap
    /\ UNCHANGED args

\* Script::message calls the hook with (pub_req, sub_req), lines 159-176:
\* into_lua writes req and msg into the meta table of the item, which every
\* clone of the item shares, and the request's fields into that of the
\* subscribe request; the hook is passed what to_value makes of them.
message_call_meta(s, pos, pr) ==
    IF MetaScript
    THEN LET pe == PublishRequestIntoLua(pr, heap[PubMeta(pr.req)])
             se == SubscribeRequestIntoLua(s, heap[SubMeta(s)])
         IN /\ heap' = [heap EXCEPT
                           ![PubMeta(pr.req)] = IF is_some(@) THEN Some(pe) ELSE @,
                           ![SubMeta(s)] = IF is_some(@) THEN Some(se) ELSE @]
            /\ args' = [args EXCEPT ![s] =
                           Append(@, HookArgs("message", pos,
                                              to_value(Some(PubMeta(pr.req)), pe),
                                              to_value(Some(SubMeta(s)), se)))]
    ELSE UNCHANGED <<heap, args>>
\* Script::timeout and Script::unsubscribe call their hook with sub_req.
subscriber_call_meta(s, name) ==
    IF MetaScript
    THEN LET se == SubscribeRequestIntoLua(s, heap[SubMeta(s)])
         IN /\ heap' = [heap EXCEPT ![SubMeta(s)] = IF is_some(@) THEN Some(se) ELSE @]
            /\ args' = [args EXCEPT ![s] =
                           Append(@, HookArgs(name, -1, None,
                                              to_value(Some(SubMeta(s)), se)))]
    ELSE UNCHANGED <<heap, args>>

\* The message hook has run: what it wrote went into the tables it was
\* passed, which are tables of the heap when they were passed by reference.
message_return_meta(s) ==
    /\ heap' = IF MetaScript
               THEN LET a == args[s][Len(args[s])] IN
                    [r \in MetaRefs |->
                        IF a.pe.ref = Some(r)
                        THEN Some(HookWrites("message", "pub", a.pe.tbl))
                        ELSE IF a.se.ref = Some(r)
                        THEN Some(HookWrites("message", "sub", a.se.tbl))
                        ELSE heap[r]]
               ELSE heap
    /\ UNCHANGED args

(***************************************************************************)
(* userdata/http.rs: an agent and the opts of its requests. An opts table  *)
(* is a function from its keys to [scalar |-> v] or [table |-> t].         *)
(***************************************************************************)
Scalar(v) == [scalar |-> v]
Table(t) == [table |-> t]
IsTable(v) == "table" \in DOMAIN v

\* The header tables and the opts tables a script passes: a timeout or none,
\* and headers that are absent, a table or (mistyped) a scalar.
HeaderTables ==
    { a @@ b : a \in {LuaEmptyTable, [accept |-> Scalar("x")], [accept |-> Scalar("y")]},
               b \in {LuaEmptyTable, [token |-> Scalar("z")]} }
OptsTables ==
    { t @@ h : t \in {LuaEmptyTable, [timeout |-> Scalar(1)], [timeout |-> Scalar(2)]},
               h \in {LuaEmptyTable, [headers |-> Scalar("none")]}
                     \cup {[headers |-> Table(x)] : x \in HeaderTables} }

\* deep_merge, lines 361-384, by what its result holds: every key of tbl2 is
\* set in the result, a table value merged into the table tbl1 has under the
\* key (a new table when tbl1 has none there); the other keys are tbl1's.
RECURSIVE deep_merge(_, _)
deep_merge(tbl1, tbl2) ==
    [k \in DOMAIN tbl1 \cup DOMAIN tbl2 |->
        IF k \notin DOMAIN tbl2 THEN tbl1[k]
        ELSE IF IsTable(tbl2[k])
        THEN Table(deep_merge(IF k \in DOMAIN tbl1 /\ IsTable(tbl1[k])
                              THEN tbl1[k].table ELSE LuaEmptyTable,
                              tbl2[k].table))
        ELSE tbl2[k]]
\* Line 366, `let merged = tbl1.clone()`: Table::clone makes a second handle
\* to the same table, so tbl1 holds the result once the loop has set the keys
\* in merged, and so does the table tbl1 has under a key (line 371).
deep_merge_tbl1(tbl1, tbl2) == deep_merge(tbl1, tbl2)

\* A request in the history: its per-call opts, the opts the agent held
\* then, and the opts the request was built from (lines 225-264).
AgentRequest(per_call, defaults, effective) ==
    [per_call |-> per_call, defaults |-> defaults, effective |-> effective]

\* The script creates an agent: http.agent(opts) or http.agent().
http_agent(opts) ==
    /\ ~agent.made
    /\ agent' = Agent(opts, opts)
    /\ UNCHANGED agent_log
    /\ UNCHANGED <<env, capacity, script, metaVars, mainVars, http, sub_response, broadcast,
                   pubVars, subVars, accepted_at, timerVars, lua, mutex, mpc>>

\* Agent::request, lines 219-224: the opts of the request.
agent_request(opts) ==
    /\ agent.made
    /\ Len(agent_log) < MaxAgentRequests
    /\ CASE is_some(agent.opts) /\ is_some(opts) ->
              /\ agent_log' = Append(agent_log,
                     AgentRequest(opts, agent.opts, deep_merge(agent.opts[1], opts[1])))
              /\ agent' = [agent EXCEPT !.opts = Some(deep_merge_tbl1(agent.opts[1], opts[1]))]
         [] is_none(agent.opts) /\ is_some(opts) ->
              /\ agent_log' = Append(agent_log, AgentRequest(opts, agent.opts, opts[1]))
              /\ UNCHANGED agent
         [] is_some(agent.opts) /\ is_none(opts) ->
              /\ agent_log' = Append(agent_log, AgentRequest(opts, agent.opts, agent.opts[1]))
              /\ UNCHANGED agent
         [] OTHER ->
              /\ agent_log' = Append(agent_log, AgentRequest(opts, agent.opts, LuaEmptyTable))
              /\ UNCHANGED agent
    /\ UNCHANGED <<env, capacity, script, metaVars, mainVars, http, sub_response, broadcast,
                   pubVars, subVars, accepted_at, timerVars, lua, mutex, mpc>>

(***************************************************************************)
(* userdata/mutex.rs: a mutex of the script, `m = mutex()`, and the hook   *)
(* invocations that call it, `m(f)`. The call is an async method: it       *)
(* awaits the lock of a tokio::sync::Mutex, keeps the guard in a local and *)
(* awaits the callback. An invocation is "idle" (has not called m), "wait" *)
(* (at lock().await), "crit" (its callback is in progress: running, or     *)
(* suspended in a primitive it awaits), "nested" (its callback has called  *)
(* m again and is at that lock().await), "returned" or "raised" (the call  *)
(* is over), "cancelled" (the invocation was dropped in the middle of the  *)
(* call, whose future still exists) or "dropped" (that future is gone).    *)
(***************************************************************************)
\* The futures of invocation t that wait for the lock are taken out of the
\* queue of waiters.
Unqueue(q, t) == SelectSeq(q, LAMBDA w : w # t)

\* MutexGuard::drop: the lock goes to the first waiter, in the order of the
\* calls of lock(), or is free when nobody waits.
Release(mx) ==
    IF mx.waiters = <<>>
    THEN [holder |-> None, waiters |-> <<>>]
    ELSE [holder |-> Some(Head(mx.waiters)), waiters |-> Tail(mx.waiters)]

\* A lock that is taken whoever holds it.
Lock_unlocked(mx, t) == [holder |-> Some(t), waiters |-> mx.waiters]
\* Line 22, this.inner.lock(): the lock is taken when it is free, else the
\* caller joins the waiters.
Lock(mx, t) ==
    IF is_none(mx.holder)
    THEN [holder |-> Some(t), waiters |-> mx.waiters]
    ELSE [holder |-> mx.holder, waiters |-> Append(mx.waiters, t)]

\* What the steps of the mutex leave alone.
MutexFrame ==
    UNCHANGED <<env, capacity, script, metaVars, mainVars, http, sub_response, broadcast,
                pubVars, subVars, accepted_at, timerVars, lua, agent, agent_log>>

\* The hook of invocation t calls m(f), lines 21-22: with the lock it goes
\* on to the callback (line 23), else it waits.
mutex_call(t) ==
    /\ mpc[t] = "idle"
    /\ mutex' = Lock(mutex, t)
    /\ mpc' = [mpc EXCEPT ![t] = IF mutex'.holder = Some(t) THEN "crit" ELSE "wait"]
    /\ MutexFrame

\* The lock was handed to the waiting call of t: lock().await completes and
\* the callback starts (line 23).
mutex_enter(t) ==
    /\ mpc[t] = "wait"
    /\ mutex.holder = Some(t)
    /\ mpc' = [mpc EXCEPT ![t] = "crit"]
    /\ UNCHANGED mutex
    /\ MutexFrame

\* A mutex whose holder takes it again without waiting.
mutex_reenter_reentrant(t) ==
    /\ mpc[t] = "crit"
    /\ mpc' = [mpc EXCEPT ![t] = "nested"]
    /\ UNCHANGED mutex
    /\ MutexFrame
\* The callback of t calls m(g) itself: the call is at lock().await (line 22)
\* while the guard of the outer call is alive.
mutex_reenter(t) ==
    /\ mpc[t] = "crit"
    /\ mutex' = Lock(mutex, t)
    /\ mpc' = [mpc EXCEPT ![t] = "nested"]
    /\ MutexFrame

\* A call that keeps the lock when the callback raises.
mutex_return_raise_keeps(t, out) ==
    /\ mpc[t] = "crit"
    /\ mpc' = [mpc EXCEPT ![t] = IF out = "raise" THEN "raised" ELSE "returned"]
    /\ mutex' = IF out = "raise" THEN mutex ELSE Release(mutex)
    /\ MutexFrame
\* The callback of t returns or raises: call_async resolves to Ok or Err,
\* the async block ends with it (line 23) and _guard is dropped.
mutex_return(t, out) ==
    /\ mpc[t] = "crit"
    /\ mpc' = [mpc EXCEPT ![t] = IF out = "raise" THEN "raised" ELSE "returned"]
    /\ mutex' = Release(mutex)
    /\ MutexFrame

\* The hook invocation t is cancelled in the middle of its call of m: the
\* task that awaited the hook has dropped it (a stream that is dropped
\* during its message hook, web.rs lines 149-154).
mutex_cancel(t) ==
    /\ mpc[t] \in {"wait", "crit", "nested"}
    /\ mpc' = [mpc EXCEPT ![t] = "cancelled"]
    /\ UNCHANGED mutex
    /\ MutexFrame

\* The future of the cancelled call is dropped: its place among the waiters
\* is given up, and so is the lock when it has it (_guard, line 22, or the
\* lock handed to it while it waited).
mutex_drop(t) ==
    /\ mpc[t] = "cancelled"
    /\ mpc' = [mpc EXCEPT ![t] = "dropped"]
    /\ mutex' = LET mx == [mutex EXCEPT !.waiters = Unqueue(mutex.waiters, t)]
                IN IF mx.holder = Some(t) THEN Release(mx) ELSE mx
    /\ MutexFrame

(***************************************************************************)
(* The script host: the mlua::Lua that Script holds. A hook is called with *)
(* call_async; each poll of the call takes the interpreter's lock, runs    *)
(* the hook until it returns, raises or awaits a host primitive, and       *)
(* gives the lock back.                                                    *)
(***************************************************************************)
\* The hook invocations a run can make: the hook and the task calling it.
Calls ==
    ({"publish"} \X Pubs) \cup ({"subscribe", "message", "timeout", "unsubscribe"} \X Subs)

\* The invocation h is in flight: called, and neither returned nor dropped.
InHook(h) ==
    CASE h[1] = "publish" -> ppc[h[2]] = "publish"
      [] h[1] = "subscribe" -> st[h[2]] = "subscribe"
      [] h[1] = "message" -> st[h[2]] = "message"
      [] h[1] = "timeout" -> st[h[2]] = "timeout"
      [] OTHER -> registered /\ task[h[2]] = "spawned"

\* A lock that is handed out whoever holds it.
LuaLock_unlocked(held) == TRUE
\* A lock that a hook keeps from its call to its return, also while it
\* awaits.
LuaLock_whole_call(held) == held = {} /\ \A h \in Calls : ~InHook(h)
\* The interpreter's lock can be taken when no poll holds it.
LuaLock(held) == held = {}

\* The poll of h that ends the hook is under way: the whole poll is one step
\* with host = "atomic", and it has taken the lock with host = "locked".
Polling(h) == env.host = "atomic" \/ h \in lua
\* The task of stream s is inside a poll of one of its hooks.
StreamPolling(s) == \E h \in lua : h[2] = s /\ h[1] \in {"message", "timeout"}

\* A task calls the hook of h and awaits it: the first poll of the call
\* starts the hook, under the lock with host = "locked".
HookCall(h) ==
    IF env.host = "locked"
    THEN LuaLock(lua) /\ lua' = lua \cup {h}
    ELSE UNCHANGED lua

\* A later poll of h takes the lock and goes on with the hook.
lua_resume(h) ==
    /\ env.host = "locked"
    /\ InHook(h)
    /\ h \notin lua
    /\ LuaLock(lua)
    /\ lua' = lua \cup {h}
    /\ UNCHANGED <<env, capacity, script, userdataVars, metaVars, mainVars, http, sub_response, broadcast, pubVars, subVars, accepted_at, timerVars>>

\* The hook awaits a host primitive: the poll returns Pending and gives the
\* lock back, the invocation stays in flight.
lua_yield(h) ==
    /\ h \in lua
    /\ lua' = lua \ {h}
    /\ UNCHANGED <<env, capacity, script, userdataVars, metaVars, mainVars, http, sub_response, broadcast, pubVars, subVars, accepted_at, timerVars>>

(***************************************************************************)
(* web.rs publish.                                                         *)
(***************************************************************************)
\* The response of a publish request: status, the fields of its JSON body,
\* and how it came about: what the publish hook did ("nohook" without one)
\* and what the bus was then (the receivers joined, the slots some receiver
\* had still to read, the items the request enqueued).
Response(req, hook, status, subscribers, queued, error, enqueued) ==
    [req |-> req, hook |-> hook, status |-> status, subscribers |-> subscribers, queued |-> queued,
     error |-> error, joined |-> Cardinality(Joined), unread |-> SenderLen(broadcast),
     enqueued |-> enqueued]

\* Lines 91-106, once Script::publish has resolved to res: Some is sent on
\* the bus and answered 202, None is answered 403, Err 500.
publish_respond(p, pr, res, out) ==
    CASE res.kind = "some" ->
           LET r == SendResult(broadcast, res.pub_req[1]) IN
           /\ broadcast' = r.bus
           /\ sent' = IF r.bus.tail > broadcast.tail
                      THEN Append(sent, [item |-> res.pub_req[1], joined |-> Joined])
                      ELSE sent
           /\ response' = [response EXCEPT ![p] =
                  Response(pr.req, out, 202, IF r.ok THEN r.n ELSE 0, SenderLen(r.bus), "",
                           r.bus.tail - broadcast.tail)]
      [] res.kind = "none" ->
           /\ response' = [response EXCEPT ![p] = Response(pr.req, out, 403, 0, 0, "message rejected by script", 0)]
           /\ UNCHANGED <<broadcast, sent>>
      [] OTHER ->
           /\ LET r == into_response(AppError("Internal", "internal")) IN
              response' = [response EXCEPT ![p] = Response(pr.req, out, r.status, 0, 0, r.error, 0)]
           /\ UNCHANGED <<broadcast, sent>>

\* Lines 76-88: the request as the handler reads it: the body is read up to
\* max_body_size, then decoded by its content type.
ReadRequest(r) ==
    LET raw == to_bytes(r.body, max_body_size) IN
    IF raw.kind = "err" THEN raw ELSE decode_raw_body(r.mime, raw.val)

\* The `?` of lines 87 and 88: the error is the response, and neither the
\* hook nor the bus is reached.
publish_refuse(p, req, err) ==
    /\ LET r == into_response(err) IN
       response' = [response EXCEPT ![p] = Response(req, "uncalled", r.status, 0, 0, r.error, 0)]
    /\ UNCHANGED <<ppc, pub_req, broadcast, sent, lua>>

\* A handler that sends the decoded request on the bus before it calls the
\* publish hook.
publish_send_first(p, r) ==
    /\ boot = "serving"
    /\ p \in env.publishers
    /\ ppc[p] = "idle"
    /\ nreq < env.posts
    /\ nreq' = nreq + 1
    /\ http' = [http EXCEPT ![p] = HttpSummary(r)]
    /\ LET dec == ReadRequest(r)
           pr  == PubReq(nreq + 1, dec.val)
       IN IF dec.kind = "err"
          THEN publish_refuse(p, nreq + 1, dec.err)
          ELSE /\ publish_respond(p, pr, NoHookResult(pr), "nohook")
               /\ IF registered
                  THEN /\ ppc' = [ppc EXCEPT ![p] = "publish"]
                       /\ pub_req' = [pub_req EXCEPT ![p] = Some(pr)]
                       /\ HookCall(<<"publish", p>>)
                  ELSE UNCHANGED <<ppc, pub_req, lua>>
    /\ UNCHANGED <<env, capacity, script, userdataVars, metaVars, mainVars, sub_response, subVars, accepted_at, timerVars>>
\* A POST arrives with request r. A request that cannot be read or decoded
\* is answered with the error. Else, with a publish hook the handler calls it
\* and awaits it; without one Script::publish resolves at once and the
\* request is answered in the same step.
publish(p, r) ==
    /\ boot = "serving"
    /\ p \in env.publishers
    /\ ppc[p] = "idle"
    /\ nreq < env.posts
    /\ nreq' = nreq + 1
    /\ http' = [http EXCEPT ![p] = HttpSummary(r)]
    /\ LET dec == ReadRequest(r)
           pr  == PubReq(nreq + 1, dec.val)
       IN IF dec.kind = "err"
          THEN publish_refuse(p, nreq + 1, dec.err)
          ELSE IF registered
          THEN /\ ppc' = [ppc EXCEPT ![p] = "publish"]
               /\ pub_req' = [pub_req EXCEPT ![p] = Some(pr)]
               /\ response' = [response EXCEPT ![p] = NoResponse]
               /\ HookCall(<<"publish", p>>)
               /\ UNCHANGED <<broadcast, sent>>
          ELSE /\ UNCHANGED <<ppc, pub_req, lua>>
               /\ publish_respond(p, pr, NoHookResult(pr), "nohook")
    /\ UNCHANGED <<env, capacity, script, userdataVars, metaVars, mainVars, sub_response, subVars, accepted_at, timerVars>>

\* The publish hook returns (or raises) and the request is answered.
publish_return(p, out) ==
    /\ ppc[p] = "publish"
    /\ Polling(<<"publish", p>>)
    /\ lua' = lua \ {<<"publish", p>>}
    /\ ppc' = [ppc EXCEPT ![p] = "idle"]
    /\ pub_req' = [pub_req EXCEPT ![p] = NoPubReq]
    /\ publish_respond(p, pub_req[p][1], HookResult(pub_req[p][1], out), out)
    /\ publish_meta(pub_req[p][1], HookResult(pub_req[p][1], out))
    /\ UNCHANGED <<env, capacity, script, userdataVars, mainVars, http, sub_response, nreq, subVars, accepted_at, timerVars>>

(***************************************************************************)
(* web.rs subscribe and sse_subscribe, req.rs SubscribeRequestGuard.       *)
(***************************************************************************)
Emit(s, ev) == events' = [events EXCEPT ![s] = Append(@, ev)]

\* A GET arrives. With a subscribe hook the handler awaits it; without one
\* Script::subscribe resolves to Some at once and the Sse response is built.
subscribe(s) ==
    /\ boot = "serving"
    /\ s \in env.clients
    /\ st[s] = "idle"
    /\ st' = [st EXCEPT ![s] = IF registered THEN "subscribe" ELSE "accepted"]
    /\ accepted_at' = IF registered THEN accepted_at
                      ELSE [accepted_at EXCEPT ![s] = broadcast.tail]
    /\ IF registered THEN HookCall(<<"subscribe", s>>) ELSE UNCHANGED lua
    /\ sub_response' = IF registered THEN sub_response
                       ELSE [sub_response EXCEPT ![s] = subscribe_respond("nohook")]
    /\ UNCHANGED <<env, capacity, script, userdataVars, metaVars, mainVars, http, broadcast, pubVars,
                   cursor, inflight, events, task, unsubscribed, timerVars>>

\* A handler that builds the Sse response also when the hook returned nil.
subscribe_return_nil_accepts(s, out) ==
    /\ st[s] = "subscribe"
    /\ Polling(<<"subscribe", s>>)
    /\ lua' = lua \ {<<"subscribe", s>>}
    /\ st' = [st EXCEPT ![s] = CASE out \in {"same", "nil"} -> "accepted"
                                 [] OTHER -> "error"]
    /\ accepted_at' = IF out \in {"same", "nil"}
                      THEN [accepted_at EXCEPT ![s] = broadcast.tail]
                      ELSE accepted_at
    /\ sub_response' = [sub_response EXCEPT ![s] = subscribe_respond(out)]
    /\ UNCHANGED <<env, capacity, script, userdataVars, metaVars, mainVars, http, broadcast, pubVars,
                   cursor, inflight, events, task, unsubscribed, timerVars>>
\* The subscribe hook returns: Some builds the Sse response (its stream not
\* yet polled), None is answered 403, an error 500.
subscribe_return(s, out) ==
    /\ st[s] = "subscribe"
    /\ Polling(<<"subscribe", s>>)
    /\ lua' = lua \ {<<"subscribe", s>>}
    /\ st' = [st EXCEPT ![s] = CASE out = "same" -> "accepted"
                                 [] out = "nil" -> "forbidden"
                                 [] OTHER -> "error"]
    /\ accepted_at' = IF out = "same" THEN [accepted_at EXCEPT ![s] = broadcast.tail]
                      ELSE accepted_at
    /\ sub_response' = [sub_response EXCEPT ![s] = subscribe_respond(out)]
    /\ subscribe_meta(s, out)
    /\ UNCHANGED <<env, capacity, script, userdataVars, mainVars, http, broadcast, pubVars,
                   cursor, inflight, events, task, unsubscribed, timerVars>>

\* The response is dropped before its body stream was ever polled (a HEAD
\* request, or the connection lost before the first poll): the stream block
\* never ran, so no receiver and no guard exist.
drop_unpolled(s) ==
    /\ st[s] = "accepted"
    /\ st' = [st EXCEPT ![s] = "closed"]
    /\ accepted_at' = [accepted_at EXCEPT ![s] = 0]
    /\ UNCHANGED <<env, capacity, script, userdataVars, metaVars, mainVars, http, sub_response, broadcast, pubVars,
                   cursor, inflight, events, task, unsubscribed,
                   timerVars, lua>>

\* A first poll that goes to the bus at once, without the handshake.
stream_start_no_handshake(s) ==
    /\ st[s] = "accepted"
    /\ LET r == SubscribeResult(broadcast) IN
       /\ broadcast' = r.bus
       /\ cursor' = [cursor EXCEPT ![s] = r.next]
    /\ st' = [st EXCEPT ![s] = "streaming"]
    /\ deadline' = [deadline EXCEPT ![s] = ArmTimeout(env.timeout, now)]
    /\ armed_at' = [armed_at EXCEPT ![s] = now]
    /\ accepted_at' = [accepted_at EXCEPT ![s] = 0]
    /\ UNCHANGED <<env, capacity, script, userdataVars, metaVars, mainVars, http, sub_response, pubVars, inflight, events, task, unsubscribed,
                   now, lua>>
\* First poll of the stream block (lines 147-192): the receiver joins the
\* bus, the timer is armed, the guard is created and the handshake comment
\* is yielded.
stream_start(s) ==
    /\ st[s] = "accepted"
    /\ LET r == SubscribeResult(broadcast) IN
       /\ broadcast' = r.bus
       /\ cursor' = [cursor EXCEPT ![s] = r.next]
    /\ st' = [st EXCEPT ![s] = "streaming"]
    /\ deadline' = [deadline EXCEPT ![s] = ArmTimeout(env.timeout, now)]
    /\ armed_at' = [armed_at EXCEPT ![s] = now]
    /\ accepted_at' = [accepted_at EXCEPT ![s] = 0]
    /\ Emit(s, Ev("ok", SubscribeResult(broadcast).next, 0, << <<"comment", "ok">> >>, ""))
    /\ UNCHANGED <<env, capacity, script, userdataVars, metaVars, mainVars, http, sub_response, pubVars, inflight, task, unsubscribed,
                   now, lua>>

\* message_result with the emptiness test of line 152 inverted.
message_result_inverted(s, pos, res, note) ==
    IF res.kind = "some" /\ is_empty(res.pub_req[1].msg)
    THEN Emit(s, Ev("message", pos, res.pub_req[1].req,
                    MessageIntoEvent(res.pub_req[1].msg), note))
    ELSE Emit(s, Ev("dropped", pos, 0, <<>>, "hook"))
\* Lines 152-162: what the stream does with the result of Script::message.
message_result(s, pos, res, note) ==
    IF res.kind = "some" /\ ~is_empty(res.pub_req[1].msg)
    THEN Emit(s, Ev("message", pos, res.pub_req[1].req,
                    MessageIntoEvent(res.pub_req[1].msg), note))
    ELSE Emit(s, Ev("dropped", pos, 0, <<>>, "hook"))

\* A stream that takes the next item from the bus while its message hook is
\* still running on the previous one.
recv_overlapping(s) ==
    /\ st[s] \in {"streaming", "message"}
    /\ LET r == RecvResult(broadcast, cursor[s]) IN
       /\ r.kind # "empty"
       /\ broadcast' = r.bus
       /\ cursor' = [cursor EXCEPT ![s] = r.next]
       /\ IF r.kind = "lagged"
          THEN /\ Emit(s, Ev("lagged", cursor[s], r.missed, <<>>, "lagged"))
               /\ UNCHANGED <<st, inflight, lua>>
          ELSE IF is_empty(r.val[1].msg)
          THEN /\ Emit(s, Ev("dropped", cursor[s], 0, <<>>, "empty"))
               /\ UNCHANGED <<st, inflight, lua>>
          ELSE IF registered
          THEN /\ st' = [st EXCEPT ![s] = "message"]
               /\ inflight' = [inflight EXCEPT ![s] = Some([pos |-> cursor[s], item |-> r.val[1]])]
               /\ HookCall(<<"message", s>>)
               /\ UNCHANGED events
          ELSE /\ message_result(s, cursor[s], NoHookResult(r.val[1]), "nohook")
               /\ UNCHANGED <<st, inflight, lua>>
    /\ deadline' = [deadline EXCEPT ![s] = SelectTimeout(@, env.timeout, now)]
    /\ UNCHANGED <<env, capacity, script, userdataVars, metaVars, mainVars, http, sub_response, pubVars, task, unsubscribed,
                   accepted_at, now, armed_at>>
\* event_stream.next() with something to read on the bus (lines 149-173):
\* a non-empty item goes to Script::message, an empty item and a Lagged
\* error are dropped.
recv(s) ==
    /\ st[s] = "streaming"
    /\ LET r == RecvResult(broadcast, cursor[s]) IN
       /\ r.kind # "empty"
       /\ broadcast' = r.bus
       /\ cursor' = [cursor EXCEPT ![s] = r.next]
       /\ IF r.kind = "lagged"
          THEN /\ Emit(s, Ev("lagged", cursor[s], r.missed, <<>>, "lagged"))
               /\ UNCHANGED <<st, inflight, lua, heap, args>>
          ELSE IF is_empty(r.val[1].msg)
          THEN /\ Emit(s, Ev("dropped", cursor[s], 0, <<>>, "empty"))
               /\ UNCHANGED <<st, inflight, lua, heap, args>>
          ELSE IF registered
          THEN /\ st' = [st EXCEPT ![s] = "message"]
               /\ inflight' = [inflight EXCEPT ![s] = Some([pos |-> cursor[s], item |-> r.val[1]])]
               /\ HookCall(<<"message", s>>)
               /\ message_call_meta(s, cursor[s], r.val[1])
               /\ UNCHANGED events
          ELSE /\ message_result(s, cursor[s], NoHookResult(r.val[1]), "nohook")
               /\ UNCHANGED <<st, inflight, lua, heap, args>>
    /\ deadline' = [deadline EXCEPT ![s] = SelectTimeout(@, env.timeout, now)]
    /\ UNCHANGED <<env, capacity, script, userdataVars, mainVars, http, sub_response, pubVars, task, unsubscribed,
                   accepted_at, now, armed_at>>

\* A stream that ends when its message hook raises.
message_return_raise_ends(s, out) ==
    /\ st[s] = "message"
    /\ Polling(<<"message", s>>)
    /\ lua' = lua \ {<<"message", s>>}
    /\ message_result(s, inflight[s][1].pos, HookResult(inflight[s][1].item, out), out)
    /\ st' = [st EXCEPT ![s] = IF out = "raise" THEN "timedout" ELSE "streaming"]
    /\ inflight' = [inflight EXCEPT ![s] = None]
    /\ deadline' = [deadline EXCEPT ![s] = SelectTimeout(@, env.timeout, now)]
    /\ UNCHANGED <<env, capacity, script, userdataVars, metaVars, mainVars, http, sub_response, broadcast, pubVars, cursor, task, unsubscribed,
                   accepted_at, now, armed_at>>
\* The message hook returns (or raises).
message_return(s, out) ==
    /\ st[s] = "message"
    /\ Polling(<<"message", s>>)
    /\ lua' = lua \ {<<"message", s>>}
    /\ message_result(s, inflight[s][1].pos, HookResult(inflight[s][1].item, out), out)
    /\ message_return_meta(s)
    /\ st' = [st EXCEPT ![s] = "streaming"]
    /\ inflight' = [inflight EXCEPT ![s] = None]
    /\ deadline' = [deadline EXCEPT ![s] = SelectTimeout(@, env.timeout, now)]
    /\ UNCHANGED <<env, capacity, script, userdataVars, mainVars, http, sub_response, broadcast, pubVars, cursor, task, unsubscribed,
                   accepted_at, now, armed_at>>

\* The f64 a timeout hook returns, in tenths: 1500, 2.5 and -5.
HookNumber(out) ==
    CASE out = "number" -> 15000
      [] out = "fraction" -> 25
      [] OTHER -> -50
\* `retry as u64` on an f64 given in tenths: the fraction is cut off, a
\* negative number is 0.
F64AsU64(tenths) == IF tenths < 0 THEN 0 ELSE tenths \div 10

\* The match of lines 196-203 with state.timeout_retry left out of the Err arm.
TimeoutRetry_err_zero(out) ==
    CASE out \in {"number", "fraction", "negative"} -> F64AsU64(HookNumber(out))
      [] out = "raise" -> 0
      [] OTHER -> env.timeout_retry
\* Lines 196-203: the retry of the timeout event, in milliseconds, from what
\* Script::timeout resolved to: Ok(Some(retry)) is `retry as u64`, Ok(None)
\* (no hook, or nil) and Err are state.timeout_retry.
TimeoutRetry(out) ==
    IF out \in {"number", "fraction", "negative"}
    THEN F64AsU64(HookNumber(out))
    ELSE env.timeout_retry

\* The arm of that match: the hook's number, or "" for state.timeout_retry.
RetrySource(out) == IF out \in {"number", "fraction", "negative"} THEN out ELSE ""

\* The timeout event is yielded and the loop goes on.
timeout_event_no_break(s, out) ==
    /\ Emit(s, Ev("timeout", -1, 0,
                  << <<"comment", "timeout">>, <<"retry", TimeoutRetry(out)>> >>,
                  RetrySource(out)))
    /\ st' = [st EXCEPT ![s] = "streaming"]
\* Lines 203-206: the timeout event is yielded; the break is next.
timeout_event(s, out) ==
    /\ Emit(s, Ev("timeout", -1, 0,
                  << <<"comment", "timeout">>, <<"retry", TimeoutRetry(out)>> >>,
                  RetrySource(out)))
    /\ st' = [st EXCEPT ![s] = "timedout"]

\* The Sleep of stream s has completed. Untimed, an armed Sleep may complete
\* at any moment.
TimerElapsed(s) == deadline[s] # Forever /\ (env.timed => now >= deadline[s])

\* The timer fires (line 195); a message hook in flight is abandoned. With a
\* timeout hook the stream awaits it, else the event is yielded at once.
timeout_fire(s) ==
    /\ st[s] \in {"streaming", "message"}
    /\ TimerElapsed(s)
    /\ ~StreamPolling(s)
    /\ inflight' = [inflight EXCEPT ![s] = None]
    /\ IF registered
       THEN /\ st' = [st EXCEPT ![s] = "timeout"]
            /\ HookCall(<<"timeout", s>>)
            /\ subscriber_call_meta(s, "timeout")
            /\ UNCHANGED events
       ELSE timeout_event(s, "nohook") /\ UNCHANGED <<lua, heap, args>>
    /\ UNCHANGED <<env, capacity, script, userdataVars, mainVars, http, sub_response, broadcast, pubVars, cursor, task, unsubscribed,
                   accepted_at, timerVars>>

\* The timeout hook returns a number, nil, or raises.
timeout_return(s, out) ==
    /\ st[s] = "timeout"
    /\ Polling(<<"timeout", s>>)
    /\ lua' = lua \ {<<"timeout", s>>}
    /\ timeout_event(s, out)
    /\ UNCHANGED <<env, capacity, script, userdataVars, metaVars, mainVars, http, sub_response, broadcast, pubVars, cursor, inflight,
                   task, unsubscribed, accepted_at, timerVars>>

\* The stream block is left or dropped after its first poll: the guard is
\* dropped, which spawns the unsubscribe task (req.rs 280-291), and the
\* receiver is dropped.
stream_drop(s) ==
    /\ ~StreamPolling(s)
    /\ st' = [st EXCEPT ![s] = "closed"]
    /\ inflight' = [inflight EXCEPT ![s] = None]
    /\ task' = [task EXCEPT ![s] = "spawned"]
    /\ broadcast' = ReceiverDrop(broadcast, cursor[s])

\* After the timeout event the loop breaks and the block ends.
stream_end(s) ==
    /\ st[s] = "timedout"
    /\ stream_drop(s)
    /\ UNCHANGED <<env, capacity, script, userdataVars, metaVars, mainVars, http, sub_response, pubVars, cursor, events, unsubscribed,
                   accepted_at, timerVars, lua>>

\* A client that goes away in the middle of a hook of its stream leaves no
\* guard to drop.
disconnect_in_hook_leaks(s) ==
    /\ st[s] \in JoinedStates
    /\ ~StreamPolling(s)
    /\ st' = [st EXCEPT ![s] = "closed"]
    /\ inflight' = [inflight EXCEPT ![s] = None]
    /\ task' = [task EXCEPT ![s] = IF st[s] \in {"message", "timeout"} THEN @ ELSE "spawned"]
    /\ broadcast' = ReceiverDrop(broadcast, cursor[s])
    /\ UNCHANGED <<env, capacity, script, userdataVars, metaVars, mainVars, http, sub_response, pubVars, cursor, events, unsubscribed,
                   accepted_at, timerVars, lua>>

\* The client disconnects while the stream is being served.
disconnect(s) ==
    /\ st[s] \in JoinedStates
    /\ stream_drop(s)
    /\ UNCHANGED <<env, capacity, script, userdataVars, metaVars, mainVars, http, sub_response, pubVars, cursor, events, unsubscribed,
                   accepted_at, timerVars, lua>>

\* The detached task calls Script::unsubscribe and awaits it (req.rs 285-289);
\* an error of the hook is logged (line 287) and the task ends either way.
unsubscribe(s) ==
    /\ task[s] = "spawned"
    /\ registered => Polling(<<"unsubscribe", s>>)
    /\ lua' = lua \ {<<"unsubscribe", s>>}
    /\ \E out \in (IF registered THEN Outcomes("unsubscribe") ELSE {"same"}) :
           task' = [task EXCEPT ![s] = IF out = "raise" THEN "failed" ELSE "done"]
    /\ IF registered THEN subscriber_call_meta(s, "unsubscribe") ELSE UNCHANGED <<heap, args>>
    /\ unsubscribed' = [unsubscribed EXCEPT ![s] = @ + 1]
    /\ UNCHANGED <<env, capacity, script, userdataVars, mainVars, http, sub_response, broadcast, pubVars, st, cursor, inflight, events,
                   accepted_at, timerVars>>

(***************************************************************************)
(* main.rs try_main: the startup hook, then the tick loop beside the       *)
(* server.                                                                 *)
(***************************************************************************)
\* One invocation of the tick hook: its count, when it was called, the
\* deadline the interval had then, when it ended (Forever while it runs) and
\* how.
Tick(n, at, due, done, out) == [count |-> n, at |-> at, due |-> due, done |-> done, out |-> out]

\* Lines 70-76: the select! is entered: axum::serve accepts requests, and the
\* tick loop creates its interval, whose first tick completes at once.
serve(out) ==
    /\ boot' = "serving"
    /\ boot_log' = [boot_log EXCEPT !.ready_at = now, !.out = out]
    /\ tick_pc' = "wait"
    /\ interval' = now
    /\ UNCHANGED <<count, ticks>>

\* A try_main that serves although the startup hook raised.
startup_return_ignores_error(out) ==
    /\ boot = "startup"
    /\ serve(out)
    /\ UNCHANGED <<env, capacity, script, userdataVars, metaVars, broadcast, pubVars, subVars, accepted_at,
                   timerVars, lua, http, sub_response>>
\* Line 68: Script::startup calls the startup function when the script
\* defines one, and the server goes on without one.
startup ==
    /\ boot = "init"
    /\ IF registered
       THEN /\ boot' = "startup"
            /\ boot_log' = [boot_log EXCEPT !.startups = @ + 1]
            /\ UNCHANGED <<count, tick_pc, interval, ticks>>
       ELSE serve("nohook")
    /\ UNCHANGED <<env, capacity, script, userdataVars, metaVars, broadcast, pubVars, subVars, accepted_at,
                   timerVars, lua, http, sub_response>>
\* The startup hook returns, or raises: the `?` of line 68 ends try_main and
\* main exits the process.
startup_return(out) ==
    /\ boot = "startup"
    /\ IF out = "raise"
       THEN /\ boot' = "exited"
            /\ boot_log' = [boot_log EXCEPT !.out = out]
            /\ UNCHANGED <<count, tick_pc, interval, ticks>>
       ELSE serve(out)
    /\ UNCHANGED <<env, capacity, script, userdataVars, metaVars, broadcast, pubVars, subVars, accepted_at,
                   timerVars, lua, http, sub_response>>

\* Interval::tick of tokio::time::interval(period), whose missed-tick
\* behaviour is the default, Burst: the next deadline is one period after the
\* deadline that has just completed, however late it completed.
IntervalNext(due, at, period) == due + period

\* Lines 76-83 and 87: interval.tick() completes; the loop counts and calls
\* Script::tick, which awaits the tick hook when one is registered.
tick_fire ==
    /\ boot = "serving"
    /\ tick_pc = "wait"
    /\ now >= interval
    /\ interval' = IntervalNext(interval, now, Ticks(env.script_tick))
    /\ count' = count + 1
    /\ IF registered
       THEN /\ tick_pc' = "hook"
            /\ ticks' = Append(ticks, Tick(count + 1, now, interval', Forever, ""))
       ELSE UNCHANGED <<tick_pc, ticks>>
    /\ UNCHANGED <<env, capacity, script, userdataVars, metaVars, broadcast, pubVars, subVars, accepted_at,
                   timerVars, lua, http, sub_response, boot, boot_log>>

\* A loop that ends when the tick hook raises.
tick_return_raise_stops(out) ==
    /\ tick_pc = "hook"
    /\ tick_pc' = IF out = "raise" THEN "off" ELSE "wait"
    /\ ticks' = [ticks EXCEPT ![Len(ticks)] = [@ EXCEPT !.done = now, !.out = out]]
    /\ UNCHANGED <<env, capacity, script, userdataVars, metaVars, broadcast, pubVars, subVars, accepted_at,
                   timerVars, lua, http, sub_response, boot, boot_log, count, interval>>
\* Lines 83-87: the tick hook returns, or raises and the error is logged; the
\* loop awaits the interval again.
tick_return(out) ==
    /\ tick_pc = "hook"
    /\ tick_pc' = "wait"
    /\ ticks' = [ticks EXCEPT ![Len(ticks)] = [@ EXCEPT !.done = now, !.out = out]]
    /\ UNCHANGED <<env, capacity, script, userdataVars, metaVars, broadcast, pubVars, subVars, accepted_at,
                   timerVars, lua, http, sub_response, boot, boot_log, count, interval>>

\* Time passes, by one tick. A Sleep that has completed wakes its stream,
\* and an interval that is due wakes the tick loop, before the next tick.
advance ==
    /\ env.timed
    /\ now < MaxTicks
    /\ \A s \in Subs :
           st[s] \in {"streaming", "message"} =>
               (deadline[s] = Forever \/ now < deadline[s])
    /\ tick_pc = "wait" => now < interval
    /\ now' = now + 1
    /\ UNCHANGED <<env, capacity, script, userdataVars, metaVars, mainVars, http, sub_response, broadcast, pubVars, subVars,
                   accepted_at, deadline, armed_at, lua>>

Next ==
    \/ \E p \in Pubs, r \in Requests : publish(p, r)
    \/ \E p \in Pubs, out \in Outcomes("publish") : publish_return(p, out)
    \/ \E s \in Subs : subscribe(s)
    \/ \E s \in Subs, out \in Outcomes("subscribe") : subscribe_return(s, out)
    \/ \E s \in Subs : drop_unpolled(s)
    \/ \E s \in Subs : stream_start(s)
    \/ \E s \in Subs : recv(s)
    \/ \E s \in Subs, out \in Outcomes("message") : message_return(s, out)
    \/ \E s \in Subs : timeout_fire(s)
    \/ \E s \in Subs, out \in Outcomes("timeout") : timeout_return(s, out)
    \/ \E s \in Subs : stream_end(s)
    \/ \E s \in Subs : disconnect(s)
    \/ \E s \in Subs : unsubscribe(s)

\* The steps of a run on the clock.
NextTimer == Next \/ advance

\* The steps of a run from the boot on.
NextTick ==
    \/ NextTimer
    \/ startup
    \/ \E out \in Outcomes("startup") : startup_return(out)
    \/ tick_fire
    \/ \E out \in Outcomes("tick") : tick_return(out)

\* The steps of a run with the polls of the hooks split at the lock.
NextHost ==
    \/ Next
    \/ \E h \in Calls : lua_resume(h)
    \/ \E h \in Calls : lua_yield(h)

Spec == Init /\ [][Next]_vars
SpecLag == InitLag /\ [][Next]_vars
\* On the clock; the stream is polled again after the timeout event, and
\* the runtime runs the spawned unsubscribe task.
SpecTimer ==
    /\ InitTimer
    /\ [][NextTimer]_vars
    /\ \A s \in Subs : WF_vars(stream_end(s)) /\ WF_vars(unsubscribe(s))
SpecHost == InitHost /\ [][NextHost]_vars
SpecRequests == InitRequests /\ [][Next]_vars
SpecTick == InitTick /\ [][NextTick]_vars
SpecMeta == InitMeta /\ [][Next]_vars
\* The runtime runs the unsubscribe task that a dropped guard spawned
\* (tokio::spawn, req.rs line 285).
SpecDetached ==
    /\ InitMeta
    /\ [][Next]_vars
    /\ \A s \in Subs : WF_vars(unsubscribe(s))
\* A script that makes an agent and requests through it.
NextAgent ==
    \/ \E opts \in {None} \cup {Some(t) : t \in OptsTables} : http_agent(opts)
    \/ \E opts \in {None} \cup {Some(t) : t \in OptsTables} : agent_request(opts)
SpecAgent == InitAgent /\ [][NextAgent]_vars
\* Hook invocations of a script that call one mutex.
NextMutex ==
    \/ \E t \in Invocations : mutex_call(t)
    \/ \E t \in Invocations : mutex_enter(t)
    \/ \E t \in Invocations : mutex_reenter(t)
    \/ \E t \in Invocations, out \in {"return", "raise"} : mutex_return(t, out)
    \/ \E t \in Invocations : mutex_cancel(t)
    \/ \E t \in Invocations : mutex_drop(t)
SpecMutex == InitAgent /\ [][NextMutex]_vars

(***************************************************************************)
(* Properties.                                                             *)
(***************************************************************************)
\* The entries of s's history about bus position pos: the item was handled
\* (written or dropped).
Handled(s, pos) ==
    {k \in DOMAIN events[s] :
        events[s][k].kind \in {"message", "dropped"} /\ events[s][k].pos = pos}
Written(s, pos) == {k \in Handled(s, pos) : events[s][k].kind = "message"}
\* s skipped pos in a lag.
Skipped(s, pos) ==
    \E k \in DOMAIN events[s] :
        /\ events[s][k].kind = "lagged"
        /\ events[s][k].pos <= pos
        /\ pos < events[s][k].pos + events[s][k].n
\* s is still reading (no timeout, no disconnect) and is done with pos.
Past(s, pos) ==
    /\ st[s] \in {"streaming", "message"}
    /\ cursor[s] > pos
    /\ (is_none(inflight[s]) \/ inflight[s][1].pos # pos)

\* C1 (fan-out): for a non-empty item enqueued with the set J of subscribers
\* joined, a subscriber outside J gets nothing for it and a subscriber gets at
\* most one frame for it; a subscriber of J that neither lagged, timed out nor
\* disconnected and is past the item has handled it exactly once, and when the
\* message hook is absent or returned its argument that is one frame carrying
\* the message; so once all of J are past it, exactly |J| frames carry it.
C1_FanOut ==
    \A i \in DOMAIN sent :
        ~is_empty(sent[i].item.msg) =>
            LET J == sent[i].joined
                carried(s) == {k \in Written(s, i - 1) :
                                  /\ events[s][k].frame = MessageIntoEvent(sent[i].item.msg)
                                  /\ events[s][k].n = sent[i].item.req}
                through(s) == Past(s, i - 1) /\ ~Skipped(s, i - 1)
            IN /\ \A s \in Subs \ J : Handled(s, i - 1) = {}
               /\ \A s \in Subs : Cardinality(Written(s, i - 1)) <= 1
               /\ \A s \in J : through(s) => Cardinality(Handled(s, i - 1)) = 1
               /\ \A s \in J : \A k \in Handled(s, i - 1) :
                      events[s][k].note \in {"same", "nohook"} => k \in carried(s)
               /\ (script # "any" /\ \A s \in J : through(s)) =>
                      /\ \A s \in J : Cardinality(carried(s)) = 1
                      /\ Cardinality({s \in Subs : Written(s, i - 1) # {}}) = Cardinality(J)

\* Two subscribers were joined at the enqueue of a non-empty item and each
\* has written the frame of it.
C1_Witness ==
    \E i \in DOMAIN sent :
        /\ ~is_empty(sent[i].item.msg)
        /\ sent[i].joined = Subs
        /\ \A s \in Subs : \E k \in Written(s, i - 1) :
               /\ events[s][k].note \in {"same", "nohook"}
               /\ events[s][k].frame = MessageIntoEvent(sent[i].item.msg)

\* The positions of the items s has written, in the order of writing.
RECURSIVE WrittenPositions(_)
WrittenPositions(evs) ==
    IF evs = <<>> THEN <<>>
    ELSE (IF Head(evs).kind = "message" THEN <<Head(evs).pos>> ELSE <<>>)
         \o WrittenPositions(Tail(evs))

\* C2 (ordering per subscriber): the items written to a stream are written in
\* strictly increasing bus position, so none twice and none out of order, and
\* each is the item the bus holds at that position: the frames are a
\* subsequence of the enqueue sequence.
C2_Ordering ==
    \A s \in Subs :
        LET w == WrittenPositions(events[s]) IN
        /\ \A a, b \in DOMAIN w : a < b => w[a] < w[b]
        /\ \A k \in DOMAIN events[s] :
               events[s][k].kind = "message" =>
                   /\ events[s][k].pos + 1 \in DOMAIN sent
                   /\ sent[events[s][k].pos + 1].item.req = events[s][k].n

\* A stream has written two items, with a lag or a drop in its history.
C2_Witness ==
    \E s \in Subs :
        /\ Len(WrittenPositions(events[s])) >= 2
        /\ \E t \in Subs : \E k \in DOMAIN events[t] :
               events[t][k].kind \in {"lagged", "dropped"}

C4_state ==
    \A s \in Subs :
        /\ \A k \in DOMAIN events[s] :
               events[s][k].kind = "message" =>
                   /\ events[s][k].frame # <<>>
                   /\ \E f \in DOMAIN events[s][k].frame :
                          events[s][k].frame[f][1] \in {"id", "event", "data", "retry", "comment"}
        /\ is_some(inflight[s]) => ~is_empty(inflight[s][1].item.msg)
C4_step ==
    \A s \in Subs :
        /\ (Len(events'[s]) > Len(events[s])
            /\ events'[s][Len(events'[s])].kind = "dropped")
              => /\ st'[s] = "streaming"
                 /\ cursor'[s] <= broadcast'.tail
        /\ (st[s] = "streaming" /\ cursor'[s] = cursor[s] + 1
            /\ broadcast.buffer[SlotIdx(broadcast, cursor[s])].pos = cursor[s]
            /\ is_empty(sent[cursor[s] + 1].item.msg))
              => /\ st'[s] = "streaming"
                 /\ is_none(inflight'[s])
                 /\ events'[s] = Append(events[s], Ev("dropped", cursor[s], 0, <<>>, "empty"))
        /\ (st[s] = "message" /\ st'[s] = "streaming"
            /\ events'[s][Len(events'[s])].kind = "message")
              => \E out \in {"same", "rewrite"} :
                     events'[s][Len(events'[s])].frame =
                         MessageIntoEvent(HookResult(inflight[s][1].item, out).pub_req[1].msg)
C4_NoEmptyFrames == [](C4_state) /\ [][C4_step]_vars

\* A stream dropped an empty item taken from the bus and wrote a frame
\* afterwards, and a stream dropped an item that its message hook emptied.
C4_Witness ==
    /\ \E s \in Subs : \E a, c \in DOMAIN events[s] :
           /\ events[s][a].kind = "dropped" /\ events[s][a].note = "empty"
           /\ a < c
           /\ events[s][c].kind = "message"
    /\ \E t \in Subs : \E b \in DOMAIN events[t] :
           /\ events[t][b].kind = "dropped" /\ events[t][b].note = "hook"
           /\ ~is_empty(sent[events[t][b].pos + 1].item.msg)

\* C5 (rejection): a request whose publish hook returned nil is answered 403
\* with error "message rejected by script", has enqueued nothing, and no
\* stream has written a frame for it.
C5_Rejection ==
    \A p \in Pubs :
        response[p].hook = "nil" =>
            /\ response[p].status = 403
            /\ response[p].error = "message rejected by script"
            /\ response[p].enqueued = 0
            /\ \A i \in DOMAIN sent : sent[i].item.req # response[p].req
            /\ \A s \in Subs : \A k \in DOMAIN events[s] :
                   events[s][k].kind = "message" => events[s][k].n # response[p].req

\* A request was answered 403 while a subscriber was joined and reading.
C5_Witness ==
    \E p \in Pubs :
        /\ response[p].hook = "nil"
        /\ response[p].status = 403
        /\ response[p].joined > 0
        /\ \E s \in Subs : st[s] = "streaming"

C9_PublishNeverWaits ==
    \A p \in Pubs :
        /\ ppc[p] = "publish" =>
               \A out \in Outcomes("publish") : ENABLED publish_return(p, out)
        /\ response[p].hook \in {"same", "rewrite", "clear"} =>
               /\ response[p].status = 202
               /\ response[p].joined > 0 => response[p].enqueued = 1

\* A request was answered 202 and enqueued its item although every slot of
\* the ring was unread by a joined subscriber.
C9_Witness ==
    \E p \in Pubs :
        /\ response[p].hook = "same"
        /\ response[p].status = 202
        /\ response[p].unread = BufLen(broadcast)
        /\ response[p].enqueued = 1
        /\ response[p].joined > 0

BusEvents(s) == SelectSeq(events[s], LAMBDA e : e.kind \in {"message", "dropped", "lagged"})
Span(e) == IF e.kind = "lagged" THEN e.n ELSE 1

\* C7 (lag policy): a lag writes nothing and leaves the stream open with its
\* cursor on the oldest item the ring retains; the items a lag skipped are
\* never handled by that stream; and what the stream takes from the bus is
\* contiguous: each entry starts where the one before it ended, so after a
\* lag the stream goes on with the oldest retained item and then in order.
C7_state ==
    \A s \in Subs :
        LET b == BusEvents(s) IN
        \A k \in DOMAIN b :
            /\ b[k].kind = "lagged" =>
                   /\ b[k].n >= 1
                   /\ b[k].frame = <<>>
                   /\ \A j \in DOMAIN b :
                          b[j].kind # "lagged" =>
                              ~(b[k].pos <= b[j].pos /\ b[j].pos < b[k].pos + b[k].n)
            /\ k > 1 => b[k].pos = b[k - 1].pos + Span(b[k - 1])
C7_step ==
    \A s \in Subs :
        (/\ Len(events'[s]) = Len(events[s]) + 1
         /\ events'[s][Len(events'[s])].kind = "lagged")
          => /\ st'[s] = "streaming"
             /\ cursor'[s] = broadcast.tail - BufLen(broadcast)
             /\ cursor'[s] = cursor[s] + events'[s][Len(events'[s])].n
             /\ broadcast'.buffer[SlotIdx(broadcast', cursor'[s])].pos = cursor'[s]
             /\ broadcast'.buffer[SlotIdx(broadcast', cursor'[s])].rem > 0
C7_LagPolicy == [](C7_state) /\ [][C7_step]_vars

\* A stream lagged and wrote two frames afterwards.
C7_Witness ==
    \E s \in Subs : \E a, b, c \in DOMAIN events[s] :
        /\ a < b /\ b < c
        /\ events[s][a].kind = "lagged"
        /\ events[s][b].kind = "message"
        /\ events[s][c].kind = "message"

\* The positions a receiver at `next` reads from the bus until it is empty.
RECURSIVE ReadAll(_, _)
ReadAll(b, next) ==
    LET r == RecvResult(b, next) IN
    IF r.kind = "empty" THEN <<>>
    ELSE IF r.kind = "lagged" THEN ReadAll(r.bus, r.next)
    ELSE <<[pos |-> next, item |-> r.val[1]]>> \o ReadAll(r.bus, r.next)

\* The newest n items enqueued, with their positions.
Newest(n) == [i \in 1..n |-> [pos |-> Len(sent) - n + i - 1,
                              item |-> sent[Len(sent) - n + i].item]]
\* s is joined and has read nothing since.
Stalled(s) == st[s] = "streaming" /\ Len(events[s]) = 1
Behind(s) == broadcast.tail - cursor[s]

JoinedAt(s) == events[s][1].pos
\* The step is the first poll of the stream of s.
Joins(s) == st[s] = "accepted" /\ st'[s] = "streaming"

\* C11, as claimed: a subscriber joins the bus when its subscribe hook
\* completes, so at the first poll of its stream its cursor is on the first
\* item enqueued since then and none of these items is missed.
C11_JoinsAtSubscribe ==
    [][registered => \A s \in Subs : Joins(s) => cursor'[s] <= accepted_at[s]]_vars

\* C12 (a well-defined cut): a subscriber's cursor starts at the item to be
\* published next, not before the tail its subscribe hook completed at, and
\* everything its stream takes from the bus lies at or after that start: no
\* item enqueued before or during its subscribe hook reaches it, and nothing
\* is on a stream before it joined.
C12_state ==
    \A s \in Subs :
        /\ st[s] \in {"idle", "subscribe", "forbidden", "error", "accepted"} => events[s] = <<>>
        /\ \A k \in DOMAIN events[s] :
               events[s][k].kind \in {"message", "dropped", "lagged"} =>
                   /\ k > 1
                   /\ events[s][k].pos >= JoinedAt(s)
                   /\ events[s][k].kind = "message" => s \in sent[events[s][k].pos + 1].joined
C12_step ==
    \A s \in Subs :
        Joins(s) =>
            /\ cursor'[s] = broadcast.tail
            /\ cursor'[s] = Len(sent)
            /\ cursor'[s] >= accepted_at[s]
            /\ events'[s] = << Ev("ok", cursor'[s], 0, << <<"comment", "ok">> >>, "") >>
C12_CursorStartsAtTail == [](C12_state) /\ [][C12_step]_vars

\* An item was enqueued for another subscriber before s joined, with a
\* subscribe hook registered, and s has written a later item.
C12_Witness ==
    \E s \in Subs :
        /\ registered
        /\ events[s] # <<>>
        /\ JoinedAt(s) >= 1
        /\ s \notin sent[1].joined
        /\ \E k \in DOMAIN events[s] : events[s][k].kind = "message"

\* C13, as claimed: on the stream of a subscriber that connected with a
\* Last-Event-ID, when the catchup hook returns a sequence, every element of
\* it is written, in order, before any live message.
C13_CatchupPrecedesLive ==
    \A s \in Subs :
        (is_some(last_event_id(s)) /\ is_some(catchup(last_event_id(s)[1]))) =>
            LET seq == catchup(last_event_id(s)[1])[1] IN
            \A k \in DOMAIN events[s] :
                events[s][k].kind = "message" =>
                    \E f \in [DOMAIN seq -> 1..(k - 1)] :
                        /\ \A i, j \in DOMAIN seq : i < j => f[i] < f[j]
                        /\ \A i \in DOMAIN seq :
                               /\ events[s][f[i]].kind = "catchup"
                               /\ events[s][f[i]].frame = MessageIntoEvent(seq[i])

\* The timeout events in the history of stream s.
TimeoutEvents(s) == {k \in DOMAIN events[s] : events[s][k].kind = "timeout"}
\* The retry field of a timeout event.
Retry(e) == e.frame[2][2]

\* C14 (timeout idempotence): once the timer of a stream has fired, nothing
\* but the timeout event is written to it; the stream holds at most one
\* timeout event, a comment "timeout" with a retry, and that is its last
\* frame; unsubscribe is not invoked before it, never twice, and once the
\* event is written unsubscribe comes to be invoked exactly once.
C14_state ==
    \A s \in Subs :
        /\ Cardinality(TimeoutEvents(s)) <= 1
        /\ \A k \in TimeoutEvents(s) :
               /\ k = Len(events[s])
               /\ Len(events[s][k].frame) = 2
               /\ events[s][k].frame[1] = <<"comment", "timeout">>
               /\ events[s][k].frame[2][1] = "retry"
               /\ st[s] \in {"timedout", "closed"}
        /\ st[s] = "timeout" => TimeoutEvents(s) = {}
        /\ st[s] = "timedout" =>
               /\ TimeoutEvents(s) # {}
               /\ task[s] = "none"
               /\ unsubscribed[s] = 0
        /\ unsubscribed[s] = (IF task[s] = "done" THEN 1 ELSE 0)
C14_step ==
    \A s \in Subs :
        /\ st[s] = "timeout" =>
               \/ events'[s] = events[s]
               \/ /\ Len(events'[s]) = Len(events[s]) + 1
                  /\ events'[s][Len(events'[s])].kind = "timeout"
                  /\ st'[s] = "timedout"
        /\ st[s] \in {"timedout", "closed"} => events'[s] = events[s]
        /\ (st[s] = "timedout" /\ st'[s] # "timedout") =>
               /\ st'[s] = "closed"
               /\ task'[s] = "spawned"
C14_TimeoutIdempotence ==
    /\ [](C14_state)
    /\ [][C14_step]_vars
    /\ \A s \in Subs : (TimeoutEvents(s) # {}) ~> (unsubscribed[s] = 1)

\* A stream wrote a message and then the timeout event, it is over, and
\* unsubscribe was invoked once.
C14_Witness ==
    \E s \in Subs :
        /\ TimeoutEvents(s) # {}
        /\ \E k \in DOMAIN events[s] : events[s][k].kind = "message"
        /\ st[s] = "closed"
        /\ unsubscribed[s] = 1

\* C15, as claimed: the retry of the timeout event is the number r the
\* timeout hook returned, and the configured timeout_retry when the match
\* fell back (hook absent, nil, or an error).
C15_RetryIsHookNumber ==
    \A s \in Subs : \A k \in TimeoutEvents(s) :
        IF events[s][k].note = ""
        THEN Retry(events[s][k]) = env.timeout_retry
        ELSE Retry(events[s][k]) * 10 = HookNumber(events[s][k].note)

\* C15, amended: the retry of the timeout event is the number r the timeout
\* hook returned converted to an unsigned integer (the fraction cut off, a
\* negative number giving 0), and the configured timeout_retry when the
\* hook is absent, returns nil or raises; whatever the hook does, the
\* timeout event is written.
C15_RetryIsHookNumberAsU64 ==
    \A s \in Subs :
        /\ \A k \in TimeoutEvents(s) :
               LET r == HookNumber(events[s][k].note)
                   retry == Retry(events[s][k])
               IN IF events[s][k].note = ""
                  THEN retry = env.timeout_retry
                  ELSE /\ retry >= 0
                       /\ r < 0 => retry = 0
                       /\ r >= 0 => (retry * 10 <= r /\ r < (retry + 1) * 10)
        /\ st[s] = "timeout" =>
               \A out \in Outcomes("timeout") : ENABLED timeout_return(s, out)
        /\ (~registered /\ TimeoutEvents(s) # {}) =>
               events[s][Len(events[s])].note = ""

\* A timeout hook returned 2.5 and the timeout event was written.
C15_Witness ==
    \E s \in Subs : \E k \in TimeoutEvents(s) :
        /\ events[s][k].note = "fraction"
        /\ Retry(events[s][k]) = 2

\* C16 (timeout 0 disables the timeout): with the timeout configured as 0 no
\* stream writes a timeout event, the timeout hook is never invoked, the
\* timer of no stream can fire however much time passes, and a stream that
\* was started ends by the client's disconnect only.
C16_state ==
    env.timeout = 0 =>
        \A s \in Subs :
            /\ TimeoutEvents(s) = {}
            /\ st[s] \notin {"timeout", "timedout"}
            /\ ~ENABLED timeout_fire(s)
C16_step ==
    env.timeout = 0 =>
        \A s \in Subs :
            (st[s] \in JoinedStates /\ st'[s] # st[s] /\ st'[s] \notin JoinedStates)
                => disconnect(s)
C16_TimeoutDisabled == [](C16_state) /\ [][C16_step]_vars

\* With timeout 0 a stream started at tick 0 is still streaming, with a
\* frame written, when the clock has run past the default timeout.
C16_Witness ==
    /\ env.timeout = 0
    /\ now > Ticks(timeout)
    /\ \E s \in Subs :
           /\ st[s] = "streaming"
           /\ armed_at[s] = 0
           /\ \E k \in DOMAIN events[s] : events[s][k].kind = "message"

\* C17 (the timeout bounds the life of a stream): with timeout > 0 the timer
\* of a stream is armed once, when the stream starts, and no message moves
\* its deadline; a stream is never in its loop later than the timeout after
\* its start, and at that moment the timer can fire, whatever was written.
C17_TimeoutNotRearmed ==
    env.timeout > 0 =>
        \A s \in Subs :
            /\ st[s] \in JoinedStates =>
                   deadline[s] = armed_at[s] + Ticks(env.timeout)
            /\ st[s] \in {"streaming", "message"} =>
                   /\ now <= armed_at[s] + Ticks(env.timeout)
                   /\ now = armed_at[s] + Ticks(env.timeout) => ENABLED timeout_fire(s)

\* A stream wrote a message and, the timeout after its start, the timeout
\* event.
C17_Witness ==
    \E s \in Subs :
        /\ env.timeout > 0
        /\ TimeoutEvents(s) # {}
        /\ \E k \in DOMAIN events[s] : events[s][k].kind = "message"
        /\ now = armed_at[s] + Ticks(env.timeout)

\* The handshake entries in the history of stream s.
Handshakes(s) == {k \in DOMAIN events[s] : events[s][k].kind = "ok"}
\* The subscription of s was accepted and its response built.
Accepted(s) == st[s] \in JoinedStates \/ st[s] = "closed"

\* C18, as claimed: on every accepted subscription the handshake comment is
\* written exactly once, as the first frame.
C18_HandshakeExactlyOnce ==
    \A s \in Subs :
        Accepted(s) =>
            /\ Cardinality(Handshakes(s)) = 1
            /\ events[s][1].frame = << <<"comment", "ok">> >>

\* C18, amended: a stream that was polled holds exactly one handshake
\* comment, as its first entry, before every message frame and the timeout
\* event; a response dropped unpolled has written nothing, and nothing is
\* written before the subscription is accepted.
C18_HandshakeFirstWhenPolled ==
    \A s \in Subs :
        /\ Cardinality(Handshakes(s)) <= 1
        /\ (st[s] \in JoinedStates \/ events[s] # <<>> \/ task[s] # "none") =>
               /\ Handshakes(s) = {1}
               /\ events[s][1].frame = << <<"comment", "ok">> >>
               /\ \A k \in DOMAIN events[s] :
                      events[s][k].kind \in {"message", "timeout"} => k > 1
        /\ ~Accepted(s) => events[s] = <<>>

\* A stream wrote the handshake, a message and the timeout event, and
\* another response was dropped unpolled.
C18_Witness ==
    /\ \E s \in Subs :
           /\ Len(events[s]) >= 3
           /\ events[s][1].kind = "ok"
           /\ \E k \in DOMAIN events[s] : events[s][k].kind = "message"
           /\ TimeoutEvents(s) # {}
    /\ \E t \in Subs : st[t] = "closed" /\ events[t] = <<>>

C20_state ==
    /\ \A i \in DOMAIN sent : sent[i].item.req \in 1..nreq
    /\ \A i, j \in DOMAIN sent : i # j => sent[i].item.req # sent[j].item.req
    /\ \A p \in Pubs :
           ppc[p] = "publish" =>
               \A i \in DOMAIN sent : sent[i].item.req # pub_req[p][1].req
C20_step ==
    Len(sent') # Len(sent) =>
        /\ Len(sent') = Len(sent) + 1
        /\ registered =>
               \E p \in Pubs :
                   /\ ppc[p] = "publish"
                   /\ ppc'[p] = "idle"
                   /\ Polling(<<"publish", p>>)
                   /\ pub_req[p][1].req = sent'[Len(sent')].item.req
                   /\ response'[p].req = pub_req[p][1].req
                   /\ response'[p].status = 202
C21_state ==
    \A s \in Subs :
        /\ (st[s] = "message") <=> is_some(inflight[s])
        /\ is_some(inflight[s]) =>
               /\ inflight[s][1].pos < cursor[s]
               /\ \A k \in DOMAIN events[s] :
                      events[s][k].kind \in {"message", "dropped"} =>
                          events[s][k].pos < inflight[s][1].pos
C21_step ==
    \A s \in Subs :
        /\ (is_some(inflight'[s]) /\ inflight'[s] # inflight[s]) =>
               /\ is_none(inflight[s])
               /\ st[s] = "streaming"
               /\ inflight'[s][1].pos = cursor[s]
               /\ cursor'[s] = cursor[s] + 1
        /\ (is_some(inflight[s]) /\ st'[s] = "streaming") =>
               /\ is_none(inflight'[s])
               /\ Len(events'[s]) = Len(events[s]) + 1
               /\ events'[s][Len(events'[s])].pos = inflight[s][1].pos
               /\ events'[s][Len(events'[s])].kind \in {"message", "dropped"}
C21_MessageHookOneAtATime == [](C21_state) /\ [][C21_step]_vars

\* The message hooks of both subscribers are in flight on the same item, and
\* one of them has had an earlier invocation return.
C21_Witness ==
    /\ \A s \in Subs : is_some(inflight[s])
    /\ inflight[1][1].pos = inflight[2][1].pos
    /\ \E s \in Subs : \E k \in DOMAIN events[s] :
           events[s][k].kind = "message" /\ events[s][k].note = "same"

\* C22 (subscribe rejected): a GET whose subscribe hook returned nil is
\* answered 403 with error "subscribe rejected by script", and no stream
\* exists for it, then or later: nothing is written (no handshake), it holds
\* no receiver on the bus, its message hook is never called, and no
\* unsubscribe task is spawned or run for it.
C22_state ==
    \A s \in Subs :
        sub_response[s].hook = "nil" =>
            /\ sub_response[s].status = 403
            /\ sub_response[s].error = "subscribe rejected by script"
            /\ st[s] = "forbidden"
            /\ events[s] = <<>>
            /\ s \notin Joined
            /\ is_none(inflight[s])
            /\ task[s] = "none"
            /\ unsubscribed[s] = 0
C22_step ==
    \A s \in Subs :
        sub_response[s].hook = "nil" =>
            /\ sub_response'[s] = sub_response[s]
            /\ (\A t \in Subs \ {s} : st'[t] \in JoinedStates <=> st[t] \in JoinedStates)
                   => broadcast'.rx_cnt = broadcast.rx_cnt
C22_SubscribeRejected == [](C22_state) /\ [][C22_step]_vars

\* A subscribe was rejected; the other subscriber holds the only receiver
\* of the bus and its stream has written an item.
C22_Witness ==
    \E s, t \in Subs :
        /\ sub_response[s].hook = "nil"
        /\ st[t] = "streaming"
        /\ broadcast.rx_cnt = 1
        /\ \E k \in DOMAIN events[t] : events[t][k].kind = "message"

\* C23 (false rejects), as claimed: a request whose publish hook returned the
\* boolean false is answered as one whose hook returned nil: 403 with error
\* "message rejected by script", and nothing is enqueued.
C23_FalseRejects ==
    \A p \in Pubs :
        response[p].hook = "false" =>
            /\ response[p].status = 403
            /\ response[p].error = "message rejected by script"
            /\ response[p].enqueued = 0

\* C24 (publish and subscribe hooks that raise): a request whose publish hook
\* raised is answered 500 and has enqueued nothing; a GET whose subscribe
\* hook raised is answered 500 and no stream is opened for it; and the step
\* in which a hook raises changes nothing but that request: the bus, the
\* other publish requests and every other subscriber's request or stream
\* stay as they are.
C24_state ==
    /\ \A p \in Pubs :
           response[p].hook = "raise" =>
               /\ response[p].status = 500
               /\ response[p].enqueued = 0
               /\ \A i \in DOMAIN sent : sent[i].item.req # response[p].req
    /\ \A s \in Subs :
           sub_response[s].hook = "raise" =>
               /\ sub_response[s].status = 500
               /\ st[s] = "error"
               /\ events[s] = <<>>
               /\ s \notin Joined
               /\ task[s] = "none"
               /\ unsubscribed[s] = 0
C24_step ==
    /\ \A p \in Pubs :
           (ppc[p] = "publish" /\ response'[p].hook = "raise") =>
               /\ UNCHANGED <<broadcast, sent, subVars, sub_response, timerVars>>
               /\ \A q \in Pubs \ {p} :
                      /\ ppc'[q] = ppc[q]
                      /\ pub_req'[q] = pub_req[q]
                      /\ response'[q] = response[q]
    /\ \A s \in Subs :
           (st[s] = "subscribe" /\ sub_response'[s].hook = "raise") =>
               /\ UNCHANGED <<broadcast, pubVars, cursor, inflight, events, task,
                              unsubscribed, timerVars>>
               /\ \A t \in Subs \ {s} :
                      st'[t] = st[t] /\ sub_response'[t] = sub_response[t]
C24_HookRaises == [](C24_state) /\ [][C24_step]_vars

\* A publish hook and a subscribe hook have raised, and the other
\* subscriber's stream has written an item all the same.
C24_Witness ==
    /\ \E p \in Pubs : response[p].hook = "raise" /\ response[p].joined > 0
    /\ \E s, t \in Subs :
           /\ sub_response[s].hook = "raise"
           /\ st[t] = "streaming"
           /\ \E k \in DOMAIN events[t] : events[t][k].kind = "message"

\* The request task p read last has been answered without the hook.
Refused(p) == response[p].hook = "uncalled"
NothingEnqueued(p) ==
    /\ response[p].enqueued = 0
    /\ \A i \in DOMAIN sent : sent[i].item.req # response[p].req

C25_state ==
    \A p \in Pubs :
        (response[p].req > 0 /\ ppc[p] = "idle") =>
            LET large     == http[p].len > max_body_size
                supported == http[p].mime \in SupportedMimes
            IN /\ large => response[p].status = 413
               /\ (~large /\ ~supported) => response[p].status = 415
               /\ (~large /\ supported /\ ~http[p].wellformed) => response[p].status = 400
               /\ (large \/ ~supported \/ ~http[p].wellformed) =>
                      Refused(p) /\ NothingEnqueued(p)
               /\ (~large /\ supported /\ http[p].wellformed) => ~Refused(p)
C25_step ==
    \A p \in Pubs :
        (response'[p] # response[p] /\ response'[p].hook = "uncalled") =>
            /\ ppc[p] = "idle"
            /\ UNCHANGED <<ppc, pub_req, broadcast, sent, lua, subVars>>
HookDrops(s) ==
    {k \in DOMAIN events[s] : events[s][k].kind = "dropped" /\ events[s][k].note = "hook"}

\* C26 (message hook returns nothing or raises): the step in which the
\* message hook of a stream ends without a message to write writes nothing,
\* leaves the stream open and reading at the next item, and leaves the bus
\* and every other stream as they are; and every later item the stream has
\* gone past, without lagging, it has handled exactly once, writing the
\* frame of the item when the hook handed the item back.
C26_state ==
    \A s \in Subs : \A k \in HookDrops(s) :
        /\ events[s][k].frame = <<>>
        /\ st[s] \in {"streaming", "message"} =>
               \A q \in (events[s][k].pos + 1)..(cursor[s] - 1) :
                   (Past(s, q) /\ ~Skipped(s, q) /\ ~is_empty(sent[q + 1].item.msg)) =>
                       /\ Cardinality(Handled(s, q)) = 1
                       /\ \A j \in Handled(s, q) :
                              /\ j > k
                              /\ events[s][j].note = "same" =>
                                     /\ events[s][j].kind = "message"
                                     /\ events[s][j].frame = MessageIntoEvent(sent[q + 1].item.msg)
C26_step ==
    \A s \in Subs :
        (st[s] = "message" /\ Len(events'[s]) = Len(events[s]) + 1
         /\ events'[s][Len(events'[s])].kind = "dropped") =>
            /\ st'[s] = "streaming"
            /\ cursor'[s] = cursor[s]
            /\ events'[s][Len(events'[s])].pos = inflight[s][1].pos
            /\ UNCHANGED <<broadcast, pubVars, task, unsubscribed>>
            /\ \A t \in Subs \ {s} :
                   /\ st'[t] = st[t]
                   /\ events'[t] = events[t]
                   /\ inflight'[t] = inflight[t]
C26_MessageHookDrops == [](C26_state) /\ [][C26_step]_vars

\* The message hook of one stream dropped an item that the other stream
\* wrote, and the first stream wrote the next item.
C26_Witness ==
    \E s, t \in Subs : \E k \in HookDrops(s) :
        /\ s # t
        /\ Written(t, events[s][k].pos) # {}
        /\ \E j \in Written(s, events[s][k].pos + 1) : j > k

\* C27 (tick driver): the tick hook is invoked with count 1, 2, 3, ... in
\* that order, each once; the first invocation happens at the moment the
\* server begins to serve; an invocation begins only after the one before it
\* has ended; and an invocation that raises leaves the loop waiting for the
\* interval as one that returns does, so that the next invocation, with the
\* next count, can happen.
C27_state ==
    /\ \A i \in DOMAIN ticks : ticks[i].count = i
    /\ registered => Len(ticks) = count
    /\ ticks # <<>> => ticks[1].at = boot_log.ready_at
    /\ boot # "serving" => ticks = <<>>
    /\ \A i \in DOMAIN ticks :
           i < Len(ticks) =>
               /\ ticks[i].done # Forever
               /\ ticks[i].done <= ticks[i + 1].at
    /\ (tick_pc = "hook") <=> (ticks # <<>> /\ ticks[Len(ticks)].done = Forever)
    /\ boot = "serving" => tick_pc \in {"wait", "hook"}
    /\ (boot = "serving" /\ tick_pc = "wait" /\ now >= interval) => ENABLED tick_fire
C27_step ==
    /\ Len(ticks') # Len(ticks) =>
           /\ Len(ticks') = Len(ticks) + 1
           /\ tick_pc = "wait"
           /\ ticks'[Len(ticks')].count = count + 1
    /\ (tick_pc = "hook" /\ tick_pc' # "hook") =>
           /\ tick_pc' = "wait"
           /\ UNCHANGED <<count, interval, boot>>
           /\ ticks'[Len(ticks)].out \in {"ok", "raise"}
C27_TickDriver == [](C27_state) /\ [][C27_step]_vars

\* Three invocations, the second of which raised.
C27_Witness ==
    /\ Len(ticks) >= 3
    /\ ticks[2].out = "raise"
    /\ ticks[3].count = 3

\* The invocation i of the tick hook ran past two deadlines of the interval
\* or more: the one due when it was called and the one after.
Overrun(i) ==
    /\ ticks[i].done # Forever
    /\ ticks[i].done >= ticks[i].due + Ticks(env.script_tick)

\* C28 (tick overrun), as claimed: after an invocation that ran past two or
\* more deadlines, one tick fires at once and the tick after that one waits
\* for the next deadline of the interval: it is not invoked at that same
\* moment.
C28_NoCatchUpBurst ==
    \A i \in DOMAIN ticks :
        (Overrun(i) /\ i + 2 \in DOMAIN ticks) =>
            /\ ticks[i + 1].at = ticks[i].done
            /\ ticks[i + 2].at > ticks[i].done

\* No request has been taken up, no stream exists, the tick loop has not
\* begun, and no hook other than startup has been called.
NothingServed ==
    /\ nreq = 0
    /\ \A p \in Pubs : ppc[p] = "idle" /\ response[p] = NoResponse
    /\ \A s \in Subs :
           /\ st[s] = "idle"
           /\ events[s] = <<>>
           /\ is_none(inflight[s])
           /\ task[s] = "none"
           /\ unsubscribed[s] = 0
    /\ sent = <<>>
    /\ count = 0
    /\ tick_pc = "off"
    /\ ticks = <<>>
    /\ lua = {}

\* C29 (startup): the startup hook is called once, never twice, and until it
\* has returned no request is served and no tick, publish, subscribe,
\* message, timeout or unsubscribe hook is called; when it raises the
\* process exits: nothing is served and no tick happens then or later.
C29_state ==
    /\ boot_log.startups <= 1
    /\ (registered /\ boot # "init") => boot_log.startups = 1
    /\ boot \in {"init", "startup", "exited"} => NothingServed
    /\ boot_log.out = "raise" => boot = "exited"
    /\ boot = "serving" => boot_log.out \in {"ok", "nohook"}
C29_step ==
    /\ boot = "exited" => boot' = "exited"
    /\ boot = "serving" => boot' = "serving" /\ boot_log' = boot_log
    /\ boot_log'.startups # boot_log.startups => boot = "init" /\ boot' = "startup"
C29_StartupFirst == [](C29_state) /\ [][C29_step]_vars

\* The startup hook raised and the process is gone: time has passed to the
\* end of the clock, with clients wanting to connect, and nothing was served.
C29_Witness ==
    /\ boot_log.out = "raise"
    /\ boot_log.startups = 1
    /\ now = MaxTicks

\* The values of the fields named f of a frame, in the order of the frame.
RECURSIVE FieldValues(_, _)
FieldValues(frame, f) ==
    IF frame = <<>> THEN <<>>
    ELSE (IF Head(frame)[1] = f THEN <<Head(frame)[2]>> ELSE <<>>)
         \o FieldValues(Tail(frame), f)
\* The frame holds the fields of message m and no other: each present field
\* once with its value, the comments in the order of the comment sequence.
HoldsFieldsOf(frame, m) ==
    /\ FieldValues(frame, "id") = m.id
    /\ FieldValues(frame, "event") = m.event
    /\ FieldValues(frame, "data") = m.data
    /\ FieldValues(frame, "retry") = m.retry
    /\ FieldValues(frame, "comment") = (IF is_some(m.comment) THEN m.comment[1] ELSE <<>>)
    /\ \A i \in DOMAIN frame : frame[i][1] \in {"id", "event", "data", "retry", "comment"}
\* The fields of the frame follow each other in the order `order` of kinds.
InFieldOrder(frame, order) ==
    \A i, j \in DOMAIN frame :
        i < j => \E a, b \in DOMAIN order :
                     a <= b /\ order[a] = frame[i][1] /\ order[b] = frame[j][1]
\* The message the frame of entry k of s's history was built from: the item
\* of the bus, as the message hook handed it back when there is one.
FrameMessage(s, k) ==
    LET item == sent[events[s][k].pos + 1].item IN
    IF events[s][k].note = "nohook" THEN item.msg
    ELSE HookResult(item, events[s][k].note).pub_req[1].msg

\* C30 (SSE framing), as claimed: the event written for a message holds each
\* present field once and no absent field, in the order: comment lines, id,
\* event, data, retry.
C30_CommentsFirst ==
    \A s \in Subs : \A k \in DOMAIN events[s] :
        events[s][k].kind = "message" =>
            /\ HoldsFieldsOf(events[s][k].frame, FrameMessage(s, k))
            /\ InFieldOrder(events[s][k].frame, <<"comment", "id", "event", "data", "retry">>)

\* C30, amended: the event written for a message holds each present field
\* once and no absent field, in the order: id, event, data, then the comment
\* lines in the order of the comment sequence, then retry.
C30_CommentsAfterData ==
    \A s \in Subs : \A k \in DOMAIN events[s] :
        events[s][k].kind = "message" =>
            /\ HoldsFieldsOf(events[s][k].frame, FrameMessage(s, k))
            /\ InFieldOrder(events[s][k].frame, <<"id", "event", "data", "comment", "retry">>)

\* A stream has written the event of a message with every field and two
\* comments.
C30_Witness ==
    \E s \in Subs : \E k \in DOMAIN events[s] :
        /\ events[s][k].kind = "message"
        /\ events[s][k].frame =
               << <<"id", "1">>, <<"event", "e">>, <<"data", "a">>,
                  <<"comment", "c">>, <<"comment", "d">>, <<"retry", 5>> >>

\* The keys a hook of the script attaches to the envelope it returns.
Attached(name, envelope) == HookWrites(name, envelope, LuaEmptyTable)
\* The table tbl holds every key of keys, with its value when valued.
HoldsKeys(tbl, keys, valued) ==
    \A k \in DOMAIN keys : k \in DOMAIN tbl /\ (valued => tbl[k] = keys[k])
\* The calls of the hook `name` in the history of s.
CallsOf(s, name) == {i \in 1..Len(args[s]) : args[s][i].hook = name}

\* C31: meta survives the round trip through the script host: a key the
\* publish hook attached to the envelope it returned is present, with the
\* same value, in the publish envelope passed to the message hook of every
\* subscriber that receives the item, and a key the subscribe hook attached
\* is present in the subscribe envelope passed to the later message, timeout
\* and unsubscribe hooks of that subscription.
C31_MetaRoundTrip ==
    \A s \in Subs : \A i \in 1..Len(args[s]) :
        LET a == args[s][i] IN
        /\ a.hook = "message" =>
               HoldsKeys(a.pe.tbl, Attached("publish", "pub"), TRUE)
        /\ a.hook \in {"message", "timeout", "unsubscribe"} =>
               HoldsKeys(a.se.tbl, Attached("subscribe", "sub"), FALSE)

\* Both subscribers' message hooks were called on the item, and one of the
\* subscriptions went on to its timeout and unsubscribe hooks.
C31_Witness ==
    /\ \A s \in Subs : CallsOf(s, "message") # {}
    /\ \E s \in Subs : CallsOf(s, "timeout") # {} /\ CallsOf(s, "unsubscribe") # {}
    /\ DOMAIN Attached("publish", "pub") # {}
    /\ DOMAIN Attached("subscribe", "sub") # {}

\* The message calls of the history about bus position pos, as <<s, i>>.
MessageCalls(pos) ==
    {c \in Subs \X (1..MaxPublishes + 2) :
        /\ c[2] <= Len(args[c[1]])
        /\ args[c[1]][c[2]].hook = "message"
        /\ args[c[1]][c[2]].pos = pos}
\* The frames stream s wrote for position pos, with what its own hook did.
FramesOf(s, pos) ==
    {e \in {events[s][i] : i \in 1..Len(events[s])} : e.pos = pos /\ e.kind \in {"message", "dropped"}}

\* C37: per-subscriber isolation of the message hook: whatever the message
\* hook does to the envelope for one subscriber, the message hook of any other
\* subscriber is passed, for the same bus item, the envelope as the bus holds
\* it (the item's req and msg, and the meta the publish hook left), and the
\* frame written to a subscriber is the one its own hook's result gives.
C37_state ==
    /\ \A pos \in 0..(Len(sent) - 1) : \A c \in MessageCalls(pos) :
           args[c[1]][c[2]].pe.tbl =
               PublishRequestIntoLua(sent[pos + 1].item,
                                     Some(Attached("publish", "pub")))
    /\ \A s \in Subs : \A pos \in 0..(Len(sent) - 1) : \A e \in FramesOf(s, pos) :
           e.note \in Outcomes("message") =>
               LET res == HookResult(sent[pos + 1].item, e.note) IN
               IF e.kind = "message"
               THEN e.frame = MessageIntoEvent(res.pub_req[1].msg)
               ELSE res.kind # "some" \/ is_empty(res.pub_req[1].msg)
C37_step ==
    \A s \in Subs : \A t \in Subs \ {s} :
        (st[s] = "message" /\ st'[s] # "message") =>
            /\ events'[t] = events[t]
            /\ args'[t] = args[t]
            /\ inflight'[t] = inflight[t]
C37_MessageHookIsolation == []C37_state /\ [][C37_step]_vars

\* The message hook of one subscriber has rewritten the message, or ended
\* without one, and written to the meta of what it was passed; the message
\* hook of the other subscriber, called on the same item, returned it as it
\* was and its frame was written.
C37_Witness ==
    \E s \in Subs : \E t \in Subs \ {s} :
        /\ \E e \in FramesOf(s, 0) : e.note \in {"rewrite", "nil", "raise"}
        /\ CallsOf(t, "message") # {}
        /\ \E e \in FramesOf(t, 0) : e.note = "same" /\ e.kind = "message"
        /\ Len(events[s]) >= 2 /\ st[t] = "streaming"

\* The comment sequence of a message: none and an empty one are no comments.
CommentSeq(m) == IF is_some(m.comment) THEN m.comment[1] ELSE <<>>
\* Two messages with the same id, event, data, comment sequence and retry.
SameMessage(m, n) ==
    /\ m.id = n.id
    /\ m.event = n.event
    /\ m.data = n.data
    /\ CommentSeq(m) = CommentSeq(n)
    /\ m.retry = n.retry
\* The request that was answered with item i of the bus.
Publisher(i) == CHOOSE p \in Pubs : response[p].req = sent[i].item.req

\* C36: identity of hooks: with no publish hook, or with one that returns
\* its argument unchanged, the item enqueued carries a message equal to the
\* decoded one (same id, event, data, comment sequence and retry), and with
\* no message hook or one that returns its argument unchanged the message
\* written to the subscriber is that of the item.
C36_IdentityOfHooks ==
    /\ \A i \in 1..Len(sent) :
           (\E p \in Pubs : response[p].req = sent[i].item.req) =>
               SameMessage(sent[i].item.msg, http[Publisher(i)].parsed[1])
    /\ \A s \in Subs : \A k \in 1..Len(events[s]) :
           events[s][k].kind = "message" =>
               events[s][k].frame = MessageIntoEvent(sent[events[s][k].pos + 1].item.msg)

\* e is the deep merge of d and p: a key of p has p's value, a key of d alone
\* d's, and a key whose value is a table in both is merged by the same rule.
RECURSIVE IsDeepMerge(_, _, _)
IsDeepMerge(e, d, p) ==
    /\ DOMAIN e = DOMAIN d \cup DOMAIN p
    /\ \A k \in DOMAIN e :
           IF k \notin DOMAIN p THEN e[k] = d[k]
           ELSE IF k \in DOMAIN d /\ IsTable(d[k]) /\ IsTable(p[k])
           THEN IsTable(e[k]) /\ IsDeepMerge(e[k].table, d[k].table, p[k].table)
           ELSE e[k] = p[k]

\* C33: for an http agent created with default opts D and a request made
\* with per-call opts P, the effective opts are the deep merge of D and P.
C33_EffectiveOptsAreDeepMerge ==
    \A i \in 1..Len(agent_log) :
        (is_some(agent.created) /\ is_some(agent_log[i].per_call)) =>
            IsDeepMerge(agent_log[i].effective, agent.created[1], agent_log[i].per_call[1])

\* C38: a request made through an http agent with per-call opts leaves the
\* agent's default opts unchanged: a later request through the same agent
\* with no per-call opts uses exactly the opts the agent was created with.
C38_DefaultsUnchanged ==
    \A i \in 1..Len(agent_log) : \A j \in 1..Len(agent_log) :
        (/\ i < j
         /\ is_some(agent.created)
         /\ is_some(agent_log[i].per_call)
         /\ is_none(agent_log[j].per_call)) =>
            agent_log[j].effective = agent.created[1]

\* The invocations whose callback is in progress: started and not finished,
\* running or suspended in something it awaits.
InProgress == {t \in Invocations : mpc[t] \in {"crit", "nested"}}
\* The place of invocation t among the waiters is q[i].
Waits(t) == \E i \in 1..Len(mutex.waiters) : mutex.waiters[i] = t

\* C32: script mutex mutual exclusion: at most one callback passed to m is in
\* progress at any instant across all hook invocations; a call m(g) made
\* while m(f) is in progress, also while f is suspended in an awaited
\* primitive, does not start g before f has finished.
C32_state ==
    /\ Cardinality(InProgress) <= 1
    /\ \A t \in InProgress : mutex.holder = Some(t)
C32_step ==
    \A w \in Invocations :
        (w \notin InProgress /\ mpc'[w] = "crit") => InProgress = {}
C32_MutexMutualExclusion == []C32_state /\ [][C32_step]_vars

\* A callback is in progress, suspended, and the call of another invocation
\* waits for the lock.
C32_Witness ==
    \E t \in Invocations : \E w \in Invocations \ {t} :
        /\ mpc[t] = "crit"
        /\ mpc[w] = "wait"
        /\ mutex.waiters = <<w>>

\* C39: a script mutex is released on every exit of its callback: when the
\* callback returns, when it raises, and when the hook invocation running it
\* is cancelled and its call dropped; after any of these the lock is with
\* the first waiting call, which goes on to its callback, or free for a later
\* call, which takes it at once.
C39_state ==
    /\ \A t \in Invocations :
           mutex.holder = Some(t) => mpc[t] \in {"wait", "crit", "nested", "cancelled"}
    /\ \A t \in Invocations :
           (mutex.holder = Some(t) /\ mpc[t] = "wait") => ENABLED mutex_enter(t)
    /\ \A t \in Invocations :
           (is_none(mutex.holder) /\ mpc[t] = "idle") =>
               ENABLED (mutex_call(t) /\ mpc'[t] = "crit")
C39_step ==
    \A t \in Invocations :
        (/\ mutex.holder = Some(t)
         /\ mpc[t] \in {"crit", "cancelled"}
         /\ mpc'[t] \in {"returned", "raised", "dropped"}) =>
            LET rest == Unqueue(mutex.waiters, t) IN
            /\ mutex'.holder = IF rest = <<>> THEN None ELSE Some(Head(rest))
            /\ mutex'.waiters = IF rest = <<>> THEN <<>> ELSE Tail(rest)
C40_state ==
    \A t \in Invocations :
        mpc[t] = "nested" =>
            /\ mutex.holder = Some(t)
            /\ Waits(t)
            /\ \A out \in {"return", "raise"} : ~ENABLED mutex_return(t, out)
            /\ \A w \in Invocations \ {t} :
                   /\ mpc[w] # "crit"
                   /\ ~ENABLED mutex_enter(w)
                   /\ mpc[w] = "idle" => ~ENABLED (mutex_call(w) /\ mpc'[w] = "crit")
C40_step ==
    \A t \in Invocations :
        mpc[t] = "nested" =>
            /\ mpc'[t] \in {"nested", "cancelled"}
            /\ mutex'.holder = mutex.holder
            /\ \A w \in Invocations \ {t} :
                   mpc'[w] \in {"crit", "returned", "raised"} => mpc'[w] = mpc[w]
C40_MutexNotReentrant == []C40_state /\ [][C40_step]_vars

\* A callback has called its own mutex, and another invocation waits for it.
C40_Witness ==
    \E t \in Invocations : \E w \in Invocations \ {t} :
        /\ mpc[t] = "nested"
        /\ mpc[w] = "wait"

\* The invocations suspended in a host primitive they await: in flight, and
\* not inside a poll.
Suspended == {h \in Calls : InHook(h) /\ h \notin lua}

Unsubscribed(s) == task[s] \in {"done", "failed"} /\ unsubscribed[s] = 1
\* The stream of s was dropped in the middle of its first message hook: it
\* took an item from the bus and no entry of its history is about one.
CancelledInMessageHook(s) ==
    /\ st[s] = "closed"
    /\ Len(events[s]) = 1
    /\ events[s][1].kind = "ok"
    /\ cursor[s] > events[s][1].pos

\* C35: when the client of a streaming subscriber disconnects, also in the
\* middle of a message or timeout hook, the drop of the stream spawns the
\* unsubscribe task; the task is detached: nothing but its own end changes
\* it, and it does end, with the hook invoked once. Its end, the hook
\* returned or raised, changes nothing of any other stream, of the bus or of
\* a request, and after an unsubscribe hook that raised a new request is
\* still taken.
C35_state ==
    (\E s \in Subs : task[s] = "failed") =>
        /\ \A p \in env.publishers :
               (ppc[p] = "idle" /\ nreq < env.posts) => ENABLED (\E r \in Requests : publish(p, r))
        /\ \A t \in env.clients : st[t] = "idle" => ENABLED subscribe(t)
        /\ \A t \in Subs : st[t] = "accepted" => ENABLED stream_start(t)
C35_step ==
    \A s \in Subs :
        /\ (st[s] \in JoinedStates /\ st'[s] \notin JoinedStates) =>
               /\ st'[s] = "closed"
               /\ task[s] = "none"
               /\ task'[s] = "spawned"
        /\ (task[s] = "spawned" /\ task'[s] # "spawned") =>
               /\ Unsubscribed(s)'
               /\ unsubscribed[s] = 0
               /\ <<st, cursor, inflight, events, broadcast, pubVars, http, sub_response>>' =
                      <<st, cursor, inflight, events, broadcast, pubVars, http, sub_response>>
               /\ \A t \in Subs \ {s} :
                      /\ args'[t] = args[t]
                      /\ heap'[SubMeta(t)] = heap[SubMeta(t)]
                      /\ task'[t] = task[t]
               /\ \A n \in 1..MaxRequests : heap'[PubMeta(n)] = heap[PubMeta(n)]
        /\ task[s] \in {"done", "failed"} => task'[s] = task[s]
C35_UnsubscribeAfterDisconnect ==
    /\ [](C35_state)
    /\ [][C35_step]_vars
    /\ \A s \in Subs : (task[s] = "spawned") ~> Unsubscribed(s)

\* A stream was dropped in the middle of its message hook and its
\* unsubscribe hook raised; another subscriber was sent a message.
C35_Witness ==
    \E s \in Subs : \E t \in Subs \ {s} :
        /\ CancelledInMessageHook(s)
        /\ task[s] = "failed"
        /\ unsubscribed[s] = 1
        /\ \E k \in DOMAIN events[t] : events[t][k].kind = "message"
====
